---- MODULE Spec2Model ----
(***************************************************************************)
(* Model of the akubra S3 proxy: the shard dispatcher (ShardsRing), the    *)
(* consistency gate in front of it (ConsistentShardsRing) and the          *)
(* write-ahead-log reconciler (DefaultWALFilter and the stages around it). *)
(*                                                                         *)
(* Strings that the code takes apart (URL paths, object ids) are sequences *)
(* of one-character strings, so that strings.Trim and strings.Split are    *)
(* computed as Go computes them.                                           *)
(***************************************************************************)
EXTENDS Integers, Sequences, FiniteSets, TLC

(***************************************************************************)
(* Bounds of the model                                                     *)
(***************************************************************************)
\* cap on the sends of one regressionCall chain
MaxSends == 5
\* largest objectVersion the log has handed out
MaxVersion == 2
\* largest number of records in the log
MaxRecords == 1
\* largest number of records of one object in the log, where the log starts
\* with several records of the object
MaxObjectRecords == 2
\* largest number of replica results recorded on one ConsistencyRecord
MaxResults == 3
\* largest number of times the record is asked whether all replicas succeeded
MaxReads == 2
\* largest capacity of the channel that carries WAL entries to the filter
MaxQueued == 2
\* largest number of WAL entries the log scan hands to the filter
MaxEntries == 2
\* largest number of versions the log hands out for the object
MaxWrites == 3
\* largest number of requests handed to the multipart round tripper
MaxRequests == 3

(***************************************************************************)
(* Go string helpers                                                       *)
(***************************************************************************)
Slash == "/"

RECURSIVE TrimLeft(_)
TrimLeft(s) ==
    IF s = <<>> THEN s
    ELSE IF Head(s) = Slash THEN TrimLeft(Tail(s)) ELSE s

RECURSIVE TrimRight(_)
TrimRight(s) ==
    IF s = <<>> THEN s
    ELSE IF s[Len(s)] = Slash THEN TrimRight(SubSeq(s, 1, Len(s) - 1)) ELSE s

\* strings.Trim(s, "/")
Trim(s) == TrimRight(TrimLeft(s))

\* strings.Split(s, "/"): n separators give n+1 pieces, Split("") = [""]
RECURSIVE SplitAcc(_, _, _)
SplitAcc(s, cur, acc) ==
    IF s = <<>> THEN Append(acc, cur)
    ELSE IF Head(s) = Slash THEN SplitAcc(Tail(s), <<>>, Append(acc, cur))
    ELSE SplitAcc(Tail(s), Append(cur, Head(s)), acc)

Split(s) == SplitAcc(s, <<>>, <<>>)

(***************************************************************************)
(* Requests                                                                *)
(***************************************************************************)
Methods == {"GET", "PUT", "DELETE", "POST"}

\* URL paths: root, bucket, bucket with a trailing slash, object
Paths == { <<"/">>, <<"/", "b">>, <<"/", "b", "/">>, <<"/", "b", "/", "o">> }

\* raw query strings, by the parameter they carry ("" = no query)
Queries == {"", "acl", "uploadId"}

ConsistencyLevels == {"none", "weak", "strong"}

\* outcome of one round trip to a shard: a transport error / timeout, or a
\* response with a status code and a version header ("" = header not set);
\* a backend may set the header on a response of any status
Statuses == {200, 400, 404, 499, 500}
Outcomes ==
    {[err |-> TRUE, status |-> 0, version |-> ""]}
    \cup {[err |-> FALSE, status |-> st, version |-> ""] : st \in Statuses}
    \cup {[err |-> FALSE, status |-> 200, version |-> "7"]}
    \cup {[err |-> FALSE, status |-> 412, version |-> "7"]}

NoResponse == [err |-> FALSE, status |-> 0, version |-> ""]

(***************************************************************************)
(* Region configuration and ring construction                              *)
(***************************************************************************)
ShardNames == {"s1", "s2", "s3"}

\* config.Shards of a region: a non-empty list of shard policies; nothing in
\* createRegressionMap or RegionRing keeps a name from being listed twice.
\* Shard names are interchangeable, so the lists are taken up to renaming:
\* the first shard is s1 and a new name is the next unused one.
ShardRank(name) == CASE name = "s1" -> 1 [] name = "s2" -> 2 [] OTHER -> 3

ShardLists ==
    { sq \in UNION { [1..n -> ShardNames] : n \in 1..Cardinality(ShardNames) } :
        \A i \in DOMAIN sq :
            \/ ShardRank(sq[i]) = 1
            \/ \E j \in 1..(i - 1) : ShardRank(sq[j]) = ShardRank(sq[i]) - 1 }

Names(shards) == { shards[i] : i \in DOMAIN shards }

\* the loop of createRegressionMap: every shard maps to the shard listed
\* before it, the first one to the last one
RECURSIVE createRegressionMapLoop(_, _, _, _)
createRegressionMapLoop(shards, i, previousCluster, regressionMap) ==
    IF i > Len(shards) THEN regressionMap
    ELSE createRegressionMapLoop(shards, i + 1, shards[i],
            [n \in (DOMAIN regressionMap) \cup {shards[i]} |->
                IF n = shards[i] THEN previousCluster ELSE regressionMap[n]])

createRegressionMap(shards) ==
    createRegressionMapLoop(shards, 1, shards[Len(shards)], <<>>)

\* getRegionClustersWeights / makeRegionClusterMap: one entry per shard name
shardClusterMap(shards) == Names(shards)

\* RegionRing: the shards handed to MergeShards for the all-clusters client
regionShards(shards) == shardClusterMap(shards)

\* faulty variant of isBucketPath: the path is split without being trimmed
isBucketPathUntrimmed(path) == Len(Split(path)) = 1

\* ShardsRing.isBucketPath
isBucketPath(path) == Len(Split(Trim(path))) = 1

\* faulty variant of shouldCallRegression: the suppressing header is ignored
shouldCallRegressionIgnoringHeader(noRegressionHeader, response) ==
    IF ~response.err
    THEN (response.status > 400) /\ (response.status < 500)
    ELSE TRUE

\* faulty variant of shouldCallRegression: only "not found" regresses
shouldCallRegressionNotFoundOnly(noRegressionHeader, response) ==
    IF ~response.err
    THEN response.status = 404
    ELSE ~noRegressionHeader

\* shouldCallRegression
shouldCallRegression(noRegressionHeader, response) ==
    IF ~response.err
    THEN (response.status > 400) /\ (response.status < 500)
    ELSE ~noRegressionHeader

(***************************************************************************)
(* State                                                                   *)
(***************************************************************************)
VARIABLES
    \* --- region / ring (immutable after construction) ---
    shardsCfg,      \* config.Shards: the region's shard names, in order
    ringNodes,      \* nodes of the hash ring: the shards, or none (all weights 0)
    ringProps,      \* [consistencyLevel, readRepair]
    \* --- one client request through gate and dispatcher ---
    pc,             \* position of the request
    req,            \* [method, path, query, noRegression]
    origCluster,    \* shard picked by the hash ring for the request
    cl,             \* shard the next regressionCall sends to
    sends,          \* per shard: round trips made by regressionCall
    fanout,         \* per shard: round trips made by the all-clusters client
    picks,          \* calls of ShardsRing.Pick
    closedBodies,   \* per shard: response bodies drained and closed
    ringResult,     \* [called, name, resp, err] of ShardsRing.DoRequest
    rrSlot,         \* context slot readRepairObjectVersion ("absent" = no slot)
    gate,           \* bookkeeping of the consistency gate for the request
    glog,           \* consistency log as seen by the gate: set of records
    \* --- reconciler ---
    replicas,           \* per endpoint: what the replica holds of the object
    target,             \* shard ring.Pick returns for the object
    wlog,               \* consistency log: records waiting for reconciliation
    inflight,           \* records handed to the filter whose hook has not run
    walEntriesChannel,  \* entries on their way from the log scan to the filter
    ringCached,         \* filter.rings holds the ring of the record's domain
    pendingTasks,       \* tasks the filter goroutine still has to send
    worker,             \* the migration executor: its task and what is left of it
    nextEntry,          \* id of the next WAL entry
    hist,               \* per entry: what the filter saw and did, what ran so far
    quietV,             \* version of the committed PUT that is the newest write
    \* --- version supply of the consistency log, writes of one object ---
    versionClock,       \* last objectVersion handed out for the object
    issued,             \* the versions handed out, in the order of the calls
    writer,             \* per writing request: its position and its version
    vrecords,           \* versions of the object's records in the log
    vstored,            \* per replica: version of the copy it holds (0 = none)
    \* --- multipart round tripper of one shard ---
    mpBackends,             \* configured backends: endpoint -> Maintenance
    backendsRoundTrippers,  \* endpoints of the backends out of maintenance
    backendsRing,           \* hash ring of the active backends: path -> node
    mpWatchdog,             \* the round tripper's watchdog field, if it has one
    mpSurvey,               \* the reconciler's survey of the shard, which ends the run
    mpPc,                   \* position of the Do call in flight
    mpReq,                  \* the request handed to Do
    multiPartUpload,        \* context flag MultiPartUpload of the request
    mpResult,               \* what the backend's RoundTrip returned
    goroutines,             \* positions of the goroutines Do started
    backendResponseChannel, \* responses delivered so far, and closed or not
    contacted,              \* per path: backends whose RoundTrip was called
    uploadProgress,         \* per path: how far an upload has been forwarded
    executionTimeUpdates,   \* UpdateExecutionTime calls made for the request
    mpCount,                \* Do calls so far
    \* --- one call of the version fetcher ---
    fetchInput,     \* the replica asked and the answer of its HEAD
    fetchResult,    \* what Fetch returned, once it has
    \* --- one request to the region ring built by RegionRing ---
    region,         \* configuration, request, position and what was reached
    \* --- one ConsistencyRecord shared by the goroutines of a request ---
    consistencyRecord,  \* its fields, its mutex and the goroutines using it
    \* --- the channels of the filter stage ---
    pipe            \* the two channels, the filter goroutine and its neighbours

proxyVars == <<shardsCfg, ringNodes, ringProps, pc, req, origCluster, cl, sends,
               fanout, picks, closedBodies, ringResult, rrSlot, gate, glog>>

walVars == <<replicas, target, wlog, inflight, walEntriesChannel,
             ringCached, pendingTasks, worker, nextEntry, hist, quietV>>

logVars == <<versionClock, issued, writer, vrecords, vstored>>

mpVars == <<mpBackends, backendsRoundTrippers, backendsRing, mpWatchdog, mpSurvey, mpPc,
            mpReq, multiPartUpload, mpResult, goroutines,
            backendResponseChannel, contacted, uploadProgress,
            executionTimeUpdates, mpCount>>

fetchVars == <<fetchInput, fetchResult>>

vars == <<proxyVars, walVars, logVars, mpVars, fetchVars, region, consistencyRecord, pipe>>

notProxyVars == <<walVars, logVars, mpVars, fetchVars, region, consistencyRecord, pipe>>
notWalVars == <<proxyVars, logVars, mpVars, fetchVars, region, consistencyRecord, pipe>>
notLogVars == <<proxyVars, walVars, mpVars, fetchVars, region, consistencyRecord, pipe>>
notMpVars == <<proxyVars, walVars, logVars, fetchVars, region, consistencyRecord, pipe>>
notFetchVars == <<proxyVars, walVars, logVars, mpVars, region, consistencyRecord, pipe>>
notRegionVars == <<proxyVars, walVars, logVars, mpVars, fetchVars, consistencyRecord, pipe>>
notRecordVars == <<proxyVars, walVars, logVars, mpVars, fetchVars, region, pipe>>
notPipeVars == <<proxyVars, walVars, logVars, mpVars, fetchVars, region, consistencyRecord>>

NoReq == [method |-> "", path |-> <<>>, query |-> "", noRegression |-> FALSE]
NoShard == ""
Zero == [s \in ShardNames |-> 0]
NoResult == [called |-> FALSE, name |-> NoShard, resp |-> NoResponse, err |-> FALSE]
NoMarker == "nil"

GateIdle ==
    [ shouldRecord |-> FALSE, insertCalled |-> FALSE, insertFailed |-> FALSE,
      deleteMarker |-> NoMarker, err |-> "", cancelled |-> FALSE,
      noErrors |-> FALSE, multiPart |-> FALSE,
      deleteCalled |-> FALSE, delayUpdated |-> FALSE, readRepairInserted |-> FALSE ]

RECURSIVE SumOver(_, _)
SumOver(f, S) ==
    IF S = {} THEN 0
    ELSE LET x == CHOOSE y \in S : TRUE IN f[x] + SumOver(f, S \ {x})

TotalSends == SumOver(sends, ShardNames)

(***************************************************************************)
(* Shard dispatcher: ShardsRing                                            *)
(***************************************************************************)
\* utils.PutResponseHeaderToContext: copies the header into the slot the
\* gate put into the request context, if there is one
PutResponseHeaderToContext(slot, resp) ==
    IF slot = "absent" THEN slot ELSE resp.version

\* faulty variant of the end of DoRequest: the version is lifted whichever
\* shard answered
liftReadRepairVersionAlways(method, err, successClusterName, pickedName, slot, resp) ==
    IF ~err /\ method = "GET"
    THEN PutResponseHeaderToContext(slot, resp)
    ELSE slot

\* the end of ShardsRing.DoRequest, after regressionCall returned
liftReadRepairVersion(method, err, successClusterName, pickedName, slot, resp) ==
    IF ~err /\ method = "GET" /\ successClusterName # pickedName
    THEN PutResponseHeaderToContext(slot, resp)
    ELSE slot

\* faulty variant of the closing of a discarded response: nothing is closed
closeBodyNever(closed, clName, resp) == closed

\* regressionCall before it recurses: "if resp != nil && resp.Body != nil
\* { closeBody(resp, reqID) }"; a transport error leaves no response
closeBody(closed, clName, resp) ==
    IF ~resp.err THEN [closed EXCEPT ![clName] = @ + 1] ELSE closed

\* regressionCall, on the answer of shard cl: the shard to recurse onto, or
\* NoShard when the answer of cl is the result
regressionTarget(regressionMap, clName, origClusterName, noRegressionHeader, resp) ==
    IF shouldCallRegression(noRegressionHeader, resp)
       /\ clName \in DOMAIN regressionMap
       /\ regressionMap[clName] # origClusterName
    THEN regressionMap[clName]
    ELSE NoShard

\* ShardsRing.DoRequest up to its first round trip: all-clusters client for
\* DELETE and bucket paths, otherwise Pick and regressionCall
RingDoRequestStart(r) ==
    IF r.method = "DELETE" \/ isBucketPath(r.path)
    THEN /\ pc' = "allClusters"
         /\ UNCHANGED <<origCluster, cl, picks, ringResult>>
    ELSE /\ picks' = picks + 1
         /\ IF ringNodes = {}
            THEN /\ pc' = "returned"
                 /\ ringResult' = [called |-> TRUE, name |-> NoShard,
                                   resp |-> NoResponse, err |-> TRUE]
                 /\ UNCHANGED <<origCluster, cl>>
            ELSE /\ \E n \in ringNodes : origCluster' = n /\ cl' = n
                 /\ pc' = "send"
                 /\ ringResult' = [ringResult EXCEPT !.called = TRUE]

\* allClustersRoundTripper.RoundTrip: one round trip to the merged client
AllClustersRoundTrip ==
    /\ pc = "allClusters"
    /\ \E resp \in Outcomes :
         ringResult' = [called |-> TRUE, name |-> NoShard, resp |-> resp, err |-> resp.err]
    /\ fanout' = [s \in ShardNames |->
                    IF s \in regionShards(shardsCfg) THEN fanout[s] + 1 ELSE fanout[s]]
    /\ pc' = "returned"
    /\ UNCHANGED <<shardsCfg, ringNodes, ringProps, req, origCluster, cl, sends,
                   picks, closedBodies, rrSlot, gate, glog>>
    /\ UNCHANGED notProxyVars

\* one activation of regressionCall: send to cl, then recurse or return
RegressionCall ==
    /\ pc = "send"
    /\ TotalSends < MaxSends
    /\ \E resp \in Outcomes :
         LET rcl == regressionTarget(createRegressionMap(shardsCfg), cl, origCluster,
                                     req.noRegression, resp)
         IN /\ sends' = [sends EXCEPT ![cl] = @ + 1]
            /\ IF rcl # NoShard
               THEN /\ closedBodies' = closeBody(closedBodies, cl, resp)
                    /\ cl' = rcl
                    /\ UNCHANGED <<pc, ringResult, rrSlot>>
               ELSE /\ ringResult' = [called |-> TRUE, name |-> cl, resp |-> resp,
                                      err |-> resp.err]
                    /\ rrSlot' = liftReadRepairVersion(req.method, resp.err, cl,
                                                       origCluster, rrSlot, resp)
                    /\ pc' = "returned"
                    /\ UNCHANGED <<cl, closedBodies>>
    /\ UNCHANGED <<shardsCfg, ringNodes, ringProps, req, origCluster, fanout,
                   picks, gate, glog>>
    /\ UNCHANGED notProxyVars

(***************************************************************************)
(* Consistency gate: ConsistentShardsRing (DoRequest, awaitCompletion)     *)
(***************************************************************************)
\* faulty variant of "record or skip": bucket paths are recorded too
RecordOrSkipAnyPath(r, consistencyLevel) ==
    /\ consistencyLevel \in {"strong", "weak"}
    /\ r.method \in {"PUT", "DELETE"}

\* step 2 of the gate, "record or skip"
RecordOrSkip(r, consistencyLevel) ==
    /\ consistencyLevel \in {"strong", "weak"}
    /\ ~isBucketPath(r.path)
    /\ \/ r.method = "PUT"
       \/ r.method = "PUT" /\ r.query = "acl"
       \/ r.method = "DELETE"

\* faulty variant of the insert-failure rule: every level aborts
abortOnInsertFailureAnyLevel(insertFailed, consistencyLevel) == insertFailed

\* step 2 of the gate, insert failure: strong aborts, weak logs and proceeds
abortOnInsertFailure(insertFailed, consistencyLevel) ==
    insertFailed /\ consistencyLevel = "strong"

\* faulty variant of the compaction rule: multipart uploads are compacted too
shouldCompactMultiPart(deleteMarker, noErrors, multiPart) ==
    deleteMarker # NoMarker /\ noErrors

\* awaitCompletion: the record is deleted when nothing failed and the request
\* was not an in-flight multipart upload
shouldCompact(deleteMarker, noErrors, multiPart) ==
    deleteMarker # NoMarker /\ noErrors /\ ~multiPart

\* ConsistencyRecordFactory.CreateRecordFor followed by
\* SupplyRecordWithVersion: objectID is bucket + "/" + key
CreateRecordFor(r, method, objectVersion) ==
    [objectID |-> TrimLeft(r.path), method |-> method, objectVersion |-> objectVersion]

\* the marker Insert returns for a record
MarkerOf(record) == <<record.objectID, record.objectVersion>>

\* ConsistentShardsRing.DoRequest up to the first round trip of the ring
GateDoRequest ==
    /\ pc = "idle"
    /\ \E m \in Methods, p \in Paths, q \in Queries, h \in BOOLEAN :
         LET r == [method |-> m, path |-> p, query |-> q, noRegression |-> h]
             rec == RecordOrSkip(r, ringProps.consistencyLevel)
             record == CreateRecordFor(r, m, "1")
         IN /\ req' = r
            /\ rrSlot' = IF ringProps.readRepair THEN "" ELSE "absent"
            /\ \E insertOk \in (IF rec THEN BOOLEAN ELSE {TRUE}) :
                 LET failed == rec /\ ~insertOk
                     abort == abortOnInsertFailure(failed, ringProps.consistencyLevel)
                 IN /\ gate' = [GateIdle EXCEPT
                                  !.shouldRecord = rec,
                                  !.insertCalled = rec,
                                  !.insertFailed = failed,
                                  !.deleteMarker = IF rec /\ insertOk
                                                   THEN MarkerOf(record) ELSE NoMarker,
                                  !.err = IF abort THEN "log" ELSE ""]
                    /\ glog' = IF rec /\ insertOk THEN glog \cup {record} ELSE glog
                    /\ IF abort
                       THEN /\ pc' = "aborted"
                            /\ UNCHANGED <<origCluster, cl, picks, ringResult>>
                       ELSE RingDoRequestStart(r)
    /\ UNCHANGED <<shardsCfg, ringNodes, ringProps, sends, fanout, closedBodies>>
    /\ UNCHANGED notProxyVars

\* the request context is done: the client got its answer or went away
ContextDone ==
    /\ pc = "returned"
    /\ \E cancelled \in BOOLEAN : gate' = [gate EXCEPT !.cancelled = cancelled]
    /\ pc' = "ctxDone"
    /\ UNCHANGED <<shardsCfg, ringNodes, ringProps, req, origCluster, cl, sends,
                   fanout, picks, closedBodies, ringResult, rrSlot, glog>>
    /\ UNCHANGED notProxyVars

\* what the layers below the gate may have left in the context flags
\* NoErrorsDuringRequest and MultiPartUpload
PossibleNoErrors ==
    IF ~ringResult.err /\ ringResult.resp.status < 400 THEN BOOLEAN ELSE {FALSE}

PossibleMultiPart ==
    IF req.query = "uploadId" /\ ~ringResult.err /\ ringResult.resp.status = 200
    THEN BOOLEAN ELSE {FALSE}

\* awaitCompletion: compaction, execution-delay update, read repair
AwaitCompletion ==
    /\ pc = "ctxDone"
    /\ \E noErrors \in PossibleNoErrors, multiPart \in PossibleMultiPart,
          repairInsertOk \in BOOLEAN :
         LET doDelete == shouldCompact(gate.deleteMarker, noErrors, multiPart)
             doRepair == rrSlot \notin {"absent", ""}
             repairRecord == CreateRecordFor(req, "PUT", rrSlot)
             compacted == IF doDelete
                          THEN {x \in glog : MarkerOf(x) # gate.deleteMarker}
                          ELSE glog
         IN /\ gate' = [gate EXCEPT
                          !.noErrors = noErrors,
                          !.multiPart = multiPart,
                          !.deleteCalled = doDelete,
                          !.delayUpdated = multiPart,
                          !.readRepairInserted = doRepair]
            /\ glog' = IF doRepair /\ repairInsertOk
                       THEN compacted \cup {repairRecord} ELSE compacted
    /\ pc' = "completed"
    /\ UNCHANGED <<shardsCfg, ringNodes, ringProps, req, origCluster, cl, sends,
                   fanout, picks, closedBodies, ringResult, rrSlot>>
    /\ UNCHANGED notProxyVars

\* what ConsistentShardsRing.DoRequest returns as error
GateError ==
    IF gate.err = "log" THEN "log"
    ELSE IF ringResult.called /\ ringResult.err THEN "ring" ELSE ""

(***************************************************************************)
(* Region ring as RingFactory.RegionRing builds it: every shard client is  *)
(* wrapped by the consistency recorder and then by the authenticator       *)
(***************************************************************************)
\* the Authorization header of a request: absent, matched by neither
\* pattern, or version 2 / version 4 with a signature that verifies or not
AuthorizationHeaders ==
    {[scheme |-> s, verifies |-> FALSE] : s \in {"", "garbage"}}
    \cup {[scheme |-> s, verifies |-> v] : s \in {"AWS", "AWS4-HMAC-SHA256"}, v \in BOOLEAN}

\* faulty variant of DoesSignMatch: the signature is not verified
DoesSignMatchUnverified(authorization) ==
    IF authorization.scheme = "" THEN "ErrAuthHeaderEmpty"
    ELSE IF authorization.scheme = "garbage" THEN "ErrIncorrectAuthHeader"
    ELSE "ErrNone"

\* DoesSignMatch
DoesSignMatch(authorization) ==
    IF authorization.scheme = "" THEN "ErrAuthHeaderEmpty"
    ELSE IF authorization.scheme = "garbage" THEN "ErrIncorrectAuthHeader"
    ELSE IF authorization.scheme \in {"AWS", "AWS4-HMAC-SHA256"}
         THEN IF authorization.verifies THEN "ErrNone" ELSE "ErrSignatureDoesNotMatch"
         ELSE "ErrUnsupportedSignatureVersion"

\* responseForbidden
responseForbidden == [err |-> FALSE, status |-> 403, version |-> ""]

\* the all-clusters client, as a name among the shard clients
AllClusters == "region"

NoRegionReq == [method |-> "", path |-> <<>>, query |-> "", noRegression |-> FALSE,
                authorization |-> [scheme |-> "", verifies |-> FALSE]]

RegionIdle ==
    region = [shards |-> <<"s1">>, watchdog |-> FALSE, pc |-> "off", req |-> NoRegionReq,
              cl |-> NoShard, origCluster |-> NoShard, tried |-> <<>>, forwarded |-> {},
              answers |-> {}, inserted |-> {}, result |-> NoResponse]

\* ShardsRing.DoRequest up to its first round trip
RegionDoRequest ==
    /\ region.pc = "idle"
    /\ \E m \in Methods, p \in Paths, h \in BOOLEAN, a \in AuthorizationHeaders,
          n \in Names(region.shards) :
         LET r == [method |-> m, path |-> p, query |-> "", noRegression |-> h,
                   authorization |-> a]
             first == IF m = "DELETE" \/ isBucketPath(p) THEN AllClusters ELSE n
         IN region' = [region EXCEPT !.pc = "send", !.req = r, !.cl = first,
                                     !.origCluster = first]
    /\ UNCHANGED notRegionVars

\* one round trip to the client region.cl: the authenticator answers 403 by
\* itself or hands the request to the consistency recorder, which inserts
\* the record and hands it to the shard; then regressionCall recurses or
\* returns
ShardRoundTrip ==
    /\ region.pc = "send"
    /\ Len(region.tried) < MaxSends
    /\ LET passes == DoesSignMatch(region.req.authorization) = "ErrNone"
           records == region.watchdog /\ RecordOrSkip(region.req, "strong")
       IN \E resp \in (IF passes THEN Outcomes ELSE {responseForbidden}) :
            LET rcl == IF region.cl = AllClusters THEN NoShard
                       ELSE regressionTarget(createRegressionMap(region.shards),
                                             region.cl, region.origCluster,
                                             region.req.noRegression, resp)
            IN region' =
                 [region EXCEPT
                    !.tried = Append(@, region.cl),
                    !.forwarded = IF passes THEN @ \cup {region.cl} ELSE @,
                    !.inserted = IF passes /\ records THEN @ \cup {region.cl} ELSE @,
                    !.answers = @ \cup {resp},
                    !.cl = IF rcl # NoShard THEN rcl ELSE @,
                    !.pc = IF rcl # NoShard THEN "send" ELSE "returned",
                    !.result = IF rcl # NoShard THEN @ ELSE resp]
    /\ UNCHANGED notRegionVars

(***************************************************************************)
(* Reconciler: region, replicas and records                                *)
(***************************************************************************)
\* the shards of the reconciled region and their backends, in the order of
\* NamedShardClient.Backends()
WalShards == {"s1", "s2"}
\* the backends of the shard the multipart round tripper is built for, as
\* the reconciler gets them from Backends()
MpShard == "mp"
MpShardBackends == SelectSeq(<<"x", "y">>, LAMBDA e : e \in DOMAIN mpBackends)

Backends(shard) ==
    IF shard = "s1" THEN <<"a", "b">>
    ELSE IF shard = "s2" THEN <<"c">>
    ELSE MpShardBackends
Endpoints == {"a", "b", "c"}

\* what a replica holds of the object: nothing, or a copy whose version
\* header reads -1 or a version handed out by the log
NotStored == [present |-> FALSE, version |-> -1]
StoredVersions == {-1} \cup (1..MaxVersion)
StoreValues == {NotStored} \cup {[present |-> TRUE, version |-> v] : v \in StoredVersions}

\* record.ObjectID: "b/o" is well formed, "bo" has no "/", "/o" has an empty
\* bucket and "b/" an empty key
ObjectIDs == { <<"b", "/", "o">>, <<"b", "o">>, <<"/", "o">>, <<"b", "/">> }
WellFormedID == <<"b", "/", "o">>

Records == [objectID : ObjectIDs, method : {"PUT", "DELETE"}, objectVersion : 1..MaxVersion]

\* the ways one survey of the replicas can fail: not at all, the credentials
\* of one backend cannot be resolved, or the HEAD of one replica fails
Failures ==
    {[kind |-> "none", endpoint |-> ""]}
    \cup {[kind |-> k, endpoint |-> e] : k \in {"keys", "head"}, e \in Endpoints}

SeqToSet(sq) == { sq[i] : i \in DOMAIN sq }

Perms(S) == { sq \in [1..Cardinality(S) -> S] : SeqToSet(sq) = S }

(***************************************************************************)
(* Version fetcher: S3VersionFetcher.Fetch                                 *)
(***************************************************************************)
\* the answer of a HEAD: err is "" on an answer, else the error text
HeadOf(value, fails) ==
    IF fails THEN [err |-> "timeout", status |-> 0, parsable |-> FALSE, header |-> 0]
    ELSE IF ~value.present
         THEN [err |-> "404 Not Found", status |-> 404, parsable |-> FALSE, header |-> 0]
         ELSE [err |-> "", status |-> 200, parsable |-> TRUE, header |-> value.version]

Fetch(endpoint, head) ==
    IF head.err # ""
    THEN IF head.err = "404 Not Found"
         THEN [err |-> FALSE,
               state |-> [storageEndpoint |-> endpoint, version |-> -1, objectNotFound |-> TRUE]]
         ELSE [err |-> TRUE,
               state |-> [storageEndpoint |-> endpoint, version |-> -1, objectNotFound |-> FALSE]]
    ELSE IF head.status # 200 \/ ~head.parsable
         THEN [err |-> TRUE,
               state |-> [storageEndpoint |-> endpoint, version |-> -1, objectNotFound |-> FALSE]]
         ELSE [err |-> FALSE,
               state |-> [storageEndpoint |-> endpoint, version |-> head.header,
                          objectNotFound |-> FALSE]]

(***************************************************************************)
(* WAL filter: DefaultWALFilter                                            *)
(***************************************************************************)
NoClient == "nil"
NilSlice == [isNil |-> TRUE, items |-> <<>>]
MakeSlice(items) == [isNil |-> FALSE, items |-> items]
NilEndpoints == [isNil |-> TRUE, src |-> "", destinations |-> <<>>,
                 numberOfStoragesWithoutVersionHeader |-> 0]

\* resolveStoragesKeys: fails when the credentials of a backend are missing
resolveStoragesKeys(shard, failure) ==
    IF failure.kind = "keys" /\ failure.endpoint \in SeqToSet(Backends(shard))
    THEN "keys" ELSE ""

\* faulty variant of the path test: every object path is taken as well formed
malformedObjectPathNever(bucketAndKey) == FALSE

\* checkStoragesForObjectPresence: the test on strings.Split(ObjectID, "/")
malformedObjectPath(bucketAndKey) ==
    Len(bucketAndKey) < 2 \/ bucketAndKey[1] = <<>> \/ bucketAndKey[2] = <<>>

\* the backends a survey of the shard sends a HEAD to: the loop over
\* Backends() returns at the first HEAD that fails
headsSent(shard, failure) ==
    IF failure.kind = "head" /\ \E i \in DOMAIN Backends(shard) : Backends(shard)[i] = failure.endpoint
    THEN SubSeq(Backends(shard), 1,
                CHOOSE i \in DOMAIN Backends(shard) : Backends(shard)[i] = failure.endpoint)
    ELSE Backends(shard)

\* checkStoragesForObjectPresence; asked lists the backends it sent a HEAD to
checkStoragesForObjectPresence(record, shard, store, failure) ==
    LET bucketAndKey == Split(record.objectID)
        states == [i \in DOMAIN Backends(shard) |->
                     Fetch(Backends(shard)[i],
                           HeadOf(store[Backends(shard)[i]],
                                  failure.kind = "head" /\ failure.endpoint = Backends(shard)[i]))]
        found == SelectSeq(states, LAMBDA f : ~f.state.objectNotFound)
        missing == SelectSeq(states, LAMBDA f : f.state.objectNotFound)
    IN IF malformedObjectPath(bucketAndKey)
       THEN [err |-> "malformed", storagesWithObject |-> <<>>, storagesWithoutObject |-> <<>>,
             asked |-> <<>>]
       ELSE IF \E i \in DOMAIN states : states[i].err
       THEN [err |-> "head", storagesWithObject |-> <<>>, storagesWithoutObject |-> <<>>,
             asked |-> headsSent(shard, failure)]
       ELSE [err |-> "", asked |-> headsSent(shard, failure),
             storagesWithObject |-> [i \in DOMAIN found |-> found[i].state],
             storagesWithoutObject |-> [i \in DOMAIN missing |-> missing[i].state]]

\* fetchVersionsFromStorages
fetchVersionsFromStorages(record, shard, store, failure) ==
    IF resolveStoragesKeys(shard, failure) # ""
    THEN [err |-> "keys", storagesWithObject |-> <<>>, storagesWithoutObject |-> <<>>,
          asked |-> <<>>]
    ELSE checkStoragesForObjectPresence(record, shard, store, failure)

\* faulty variant of the test for a newer version: the test is left out
newerVersionOnStorageNever(storage, record) == FALSE

\* checkVersions: "there is a newer version of the object on one of the
\* storages", the test that makes it return nil
newerVersionOnStorage(storage, record) == storage.version > record.objectVersion

\* the loop of checkVersions over storagesWithObject
RECURSIVE checkVersionsLoop(_, _, _, _)
checkVersionsLoop(record, storages, i, acc) ==
    IF i > Len(storages) THEN acc
    ELSE LET storage == storages[i] IN
         IF storage.version = -1
         THEN checkVersionsLoop(record, storages, i + 1,
                [acc EXCEPT
                    !.numberOfStoragesWithoutVersionHeader =
                        IF ~storage.objectNotFound THEN @ + 1 ELSE @,
                    !.destinations = Append(@, storage.storageEndpoint)])
         ELSE IF newerVersionOnStorage(storage, record)
         THEN NilEndpoints
         ELSE IF record.method = "PUT"
         THEN IF storage.version < record.objectVersion
              THEN checkVersionsLoop(record, storages, i + 1,
                     [acc EXCEPT !.destinations = Append(@, storage.storageEndpoint)])
              ELSE checkVersionsLoop(record, storages, i + 1,
                     [acc EXCEPT !.src = storage.storageEndpoint])
         ELSE IF ~storage.objectNotFound
              THEN checkVersionsLoop(record, storages, i + 1,
                     [acc EXCEPT !.destinations = Append(@, storage.storageEndpoint)])
              ELSE checkVersionsLoop(record, storages, i + 1, acc)

\* faulty variant of checkVersions: the replicas without version header are
\* not counted
checkVersionsUncounted(record, objectState) ==
    [checkVersionsLoop(record, objectState.storagesWithObject, 1,
        [isNil |-> FALSE, src |-> "", destinations |-> <<>>,
         numberOfStoragesWithoutVersionHeader |-> 0])
     EXCEPT !.numberOfStoragesWithoutVersionHeader = -1]

checkVersions(record, objectState) ==
    checkVersionsLoop(record, objectState.storagesWithObject, 1,
        [isNil |-> FALSE, src |-> "", destinations |-> <<>>,
         numberOfStoragesWithoutVersionHeader |-> 0])

\* faulty variant of resolveVersions: the replicas without the object are not
\* made destinations of a PUT and an all-legacy shard is not passed over
resolveVersionsWithObjectOnly(record, objectState) ==
    IF record.method = "PUT" /\ Len(objectState.storagesWithObject) < 1
    THEN NilEndpoints
    ELSE checkVersions(record, objectState)

\* resolveVersions
resolveVersions(record, objectState) ==
    IF record.method = "PUT" /\ Len(objectState.storagesWithObject) < 1
    THEN NilEndpoints
    ELSE LET storagesEndpoints == checkVersions(record, objectState) IN
         IF storagesEndpoints.isNil THEN NilEndpoints
         ELSE IF storagesEndpoints.numberOfStoragesWithoutVersionHeader
                    = Len(objectState.storagesWithObject)
         THEN NilEndpoints
         ELSE IF record.method = "PUT"
         THEN [storagesEndpoints EXCEPT !.destinations =
                 @ \o [i \in DOMAIN objectState.storagesWithoutObject |->
                         objectState.storagesWithoutObject[i].storageEndpoint]]
         ELSE storagesEndpoints

\* faulty variant of prepareShardMigration: the replicas without the object
\* are made destinations whatever the versions on the shard
prepareShardMigrationToMissing(record, state) ==
    [srcCli |-> NoClient,
     dstClis |-> MakeSlice([i \in DOMAIN state.storagesWithoutObject |->
                              state.storagesWithoutObject[i].storageEndpoint])]

\* faulty variant of prepareShardMigration: a PUT plan is returned also when
\* no replica of the shard can serve as its source
prepareShardMigrationWithoutSource(record, state) ==
    LET storagesEndpoints == resolveVersions(record, state) IN
    IF storagesEndpoints.isNil
    THEN [srcCli |-> NoClient, dstClis |-> NilSlice]
    ELSE [srcCli |-> IF storagesEndpoints.src = "" THEN NoClient ELSE storagesEndpoints.src,
          dstClis |-> MakeSlice(storagesEndpoints.destinations)]

\* prepareShardMigration: source client and destination clients, by endpoint
prepareShardMigration(record, state) ==
    LET storagesEndpoints == resolveVersions(record, state) IN
    IF storagesEndpoints.isNil
    THEN [srcCli |-> NoClient, dstClis |-> NilSlice]
    ELSE IF record.method = "PUT"
         THEN IF storagesEndpoints.src = ""
              THEN [srcCli |-> NoClient, dstClis |-> NilSlice]
              ELSE [srcCli |-> storagesEndpoints.src,
                    dstClis |-> MakeSlice(storagesEndpoints.destinations)]
         ELSE [srcCli |-> NoClient, dstClis |-> MakeSlice(storagesEndpoints.destinations)]

\* faulty variant of getStoragesWithVersion: the comparison is turned round
getStoragesWithVersionAtLeast(version, state) ==
    LET kept == SelectSeq(state.storagesWithObject,
                          LAMBDA st : ~st.objectNotFound /\ st.version >= version)
    IN [i \in DOMAIN kept |-> kept[i].storageEndpoint]

\* faulty variant of getStoragesWithVersion: the version is not looked at
getStoragesWithAnyVersion(version, state) ==
    [i \in DOMAIN state.storagesWithObject |-> state.storagesWithObject[i].storageEndpoint]

\* getStoragesWithVersion
getStoragesWithVersion(version, state) ==
    LET kept == SelectSeq(state.storagesWithObject,
                          LAMBDA st : ~st.objectNotFound /\ st.version <= version)
    IN [i \in DOMAIN kept |-> kept[i].storageEndpoint]

noopTask == [oldStoragesWithObject |-> <<>>, targetShardSrcCli |-> NoClient,
             targetShardDstClis |-> NilSlice]

\* the HEADs of the shards visited so far, followed by those of the rest of
\* the loop
AfterHeads(asked, result) == [result EXCEPT !.asked = asked \o @]

\* the loop of determineStorages over ring.GetShards(), a Go map: order is
\* the order in which this call happens to iterate it
RECURSIVE determineStoragesLoop(_, _, _, _, _, _, _)
determineStoragesLoop(record, pickedShard, order, i, store, failure, acc) ==
    IF i > Len(order) THEN [err |-> "", ringState |-> acc, asked |-> <<>>]
    ELSE LET shardClient == order[i]
             stateOnShard == fetchVersionsFromStorages(record, shardClient, store, failure)
         IN IF stateOnShard.err # ""
            THEN [err |-> stateOnShard.err, ringState |-> noopTask,
                  asked |-> stateOnShard.asked]
            ELSE IF shardClient = pickedShard
            THEN LET m == prepareShardMigration(record, stateOnShard) IN
                 IF m.srcCli = NoClient /\ m.dstClis.isNil
                 THEN [err |-> "", ringState |-> noopTask, asked |-> stateOnShard.asked]
                 ELSE AfterHeads(stateOnShard.asked,
                        determineStoragesLoop(record, pickedShard, order, i + 1, store, failure,
                          [acc EXCEPT !.targetShardSrcCli = m.srcCli,
                                      !.targetShardDstClis = m.dstClis]))
            ELSE AfterHeads(stateOnShard.asked,
                   determineStoragesLoop(record, pickedShard, order, i + 1, store, failure,
                     [acc EXCEPT !.oldStoragesWithObject =
                         @ \o getStoragesWithVersion(record.objectVersion, stateOnShard)]))

determineStorages(record, pickedShard, order, store, failure) ==
    determineStoragesLoop(record, pickedShard, order, 1, store, failure, noopTask)

(***************************************************************************)
(* Reconciler pipeline: log scan -> filter -> executor -> hook             *)
(***************************************************************************)
NoRecord == [objectID |-> <<>>, method |-> "", objectVersion |-> 0]
NoTask == [entry |-> 0, kind |-> "", record |-> NoRecord, sourceClient |-> NoClient,
           destinations |-> <<>>, hook |-> "noop"]
IdleWorker == [busy |-> FALSE, task |-> NoTask, todo |-> <<>>, failed |-> FALSE]
NoHist == [fed |-> FALSE, record |-> NoRecord, filtered |-> FALSE,
           survey |-> [e \in Endpoints |-> NotStored], asked |-> {}, err |-> "",
           tasks |-> <<>>,
           todo |-> {}, done |-> {}, hookCalls |-> 0, hookErr |-> ""]

\* log scan: hands a record of the log that is not being processed to the
\* filter as a WAL entry carrying the record's RecordProcessedHook; the
\* queue to the filter holds one entry and the scan blocks while it is full
Feed ==
    /\ nextEntry <= MaxEntries
    /\ walEntriesChannel = <<>>
    /\ \E r \in wlog \ inflight :
         /\ walEntriesChannel' =
                Append(walEntriesChannel, [id |-> nextEntry, record |-> r, hook |-> "real"])
         /\ inflight' = inflight \cup {r}
         /\ hist' = [hist EXCEPT ![nextEntry] = [@ EXCEPT !.fed = TRUE, !.record = r]]
    /\ nextEntry' = nextEntry + 1
    /\ UNCHANGED <<replicas, target, wlog, ringCached, pendingTasks,
                   worker, quietV>>
    /\ UNCHANGED notWalVars

\* RecordProcessedHook(record, err): removes the record from the log when it
\* was reconciled or can never be; a failed survey or migration leaves it
\* for the next scan
HookKeepsRecord(err) == err \notin {"", "malformed"}

\* clearOldStoragesTask
clearOldStoragesTask(id, record, recordProcessedHook, s3Clis) ==
    [entry |-> id, kind |-> "cleanup",
     record |-> [record EXCEPT !.method = "DELETE"],
     sourceClient |-> NoClient, destinations |-> s3Clis, hook |-> recordProcessedHook]

\* faulty variant of the hook placement: the hook always moves to the cleanup
\* task
filterTasksHookOnCleanup(walEntry, ringState) ==
    << [entry |-> walEntry.id, kind |-> "migration", record |-> walEntry.record,
        sourceClient |-> ringState.targetShardSrcCli,
        destinations |-> ringState.targetShardDstClis.items, hook |-> "noop"],
       clearOldStoragesTask(walEntry.id, walEntry.record, walEntry.hook,
                            ringState.oldStoragesWithObject) >>

\* faulty variant of the hook placement: the hook stays on the migration task
filterTasksHookOnMigration(walEntry, ringState) ==
    << [entry |-> walEntry.id, kind |-> "migration", record |-> walEntry.record,
        sourceClient |-> ringState.targetShardSrcCli,
        destinations |-> ringState.targetShardDstClis.items, hook |-> walEntry.hook],
       clearOldStoragesTask(walEntry.id, walEntry.record, "noop",
                            ringState.oldStoragesWithObject) >>

\* the two tasks the filter sends for an entry, in the order it sends them
filterTasks(walEntry, ringState) ==
    LET moveHook == Len(ringState.oldStoragesWithObject) > 0
        hook == IF moveHook THEN walEntry.hook ELSE "noop"
        entryHook == IF moveHook THEN "noop" ELSE walEntry.hook
    IN << [entry |-> walEntry.id, kind |-> "migration", record |-> walEntry.record,
           sourceClient |-> ringState.targetShardSrcCli,
           destinations |-> ringState.targetShardDstClis.items, hook |-> entryHook],
          clearOldStoragesTask(walEntry.id, walEntry.record, hook,
                               ringState.oldStoragesWithObject) >>

TodoOf(tasks) ==
    UNION { { <<tasks[k].kind, e>> : e \in SeqToSet(tasks[k].destinations) } :
              k \in DOMAIN tasks }

\* faulty variant of the error test of Filter: the error is passed over
finishesWithErrorNever(err) == FALSE

\* Filter: "if err != nil { finishWithError(walEntry, err); continue }"
finishesWithError(err) == err # ""

\* one turn of the loop of the Filter goroutine: receive an entry, resolve
\* its ring, survey the replicas, then finish it with an error or queue the
\* two tasks for sending
Filter ==
    /\ walEntriesChannel # <<>>
    /\ pendingTasks = <<>>
    /\ LET walEntry == Head(walEntriesChannel) IN
       \E ringOk \in (IF ringCached THEN {TRUE} ELSE BOOLEAN),
          order \in Perms(WalShards), failure \in Failures :
         LET res == IF ringOk
                    THEN determineStorages(walEntry.record, target, order, replicas, failure)
                    ELSE [err |-> "ring", ringState |-> noopTask, asked |-> <<>>]
             tasks == filterTasks(walEntry, res.ringState)
         IN /\ walEntriesChannel' = Tail(walEntriesChannel)
            /\ ringCached' = (ringCached \/ ringOk)
            /\ IF finishesWithError(res.err)
               THEN \* finishWithError
                    /\ pendingTasks' = <<>>
                    /\ wlog' = IF HookKeepsRecord(res.err) THEN wlog
                               ELSE wlog \ {walEntry.record}
                    /\ inflight' = inflight \ {walEntry.record}
                    /\ hist' = [hist EXCEPT ![walEntry.id] =
                                 [@ EXCEPT !.filtered = TRUE, !.survey = replicas,
                                           !.asked = SeqToSet(res.asked),
                                           !.err = res.err,
                                           !.hookCalls = @ + 1, !.hookErr = res.err]]
               ELSE /\ pendingTasks' = tasks
                    /\ hist' = [hist EXCEPT ![walEntry.id] =
                                 [@ EXCEPT !.filtered = TRUE, !.survey = replicas,
                                           !.asked = SeqToSet(res.asked),
                                           !.err = res.err,
                                           !.tasks = tasks, !.todo = TodoOf(tasks)]]
                    /\ UNCHANGED <<wlog, inflight>>
    /\ UNCHANGED <<replicas, target, worker, nextEntry, quietV>>
    /\ UNCHANGED notWalVars

\* a task with no source, no destination and the no-op hook is dropped
Droppable(task) ==
    task.sourceClient = NoClient /\ task.destinations = <<>> /\ task.hook = "noop"

\* the executor takes the task the filter is sending
WorkerReceive ==
    /\ pendingTasks # <<>>
    /\ ~worker.busy
    /\ LET task == Head(pendingTasks) IN
         /\ pendingTasks' = Tail(pendingTasks)
         /\ IF Droppable(task)
            THEN /\ hist' = [hist EXCEPT ![task.entry].done = @ \cup {task.kind}]
                 /\ UNCHANGED worker
            ELSE /\ worker' = [busy |-> TRUE, task |-> task, todo |-> task.destinations,
                               failed |-> FALSE]
                 /\ UNCHANGED hist
    /\ UNCHANGED <<replicas, target, wlog, inflight, walEntriesChannel,
                   ringCached, nextEntry, quietV>>
    /\ UNCHANGED notWalVars

\* the executor serves one destination of its task: copy the object from
\* the source for a PUT task, delete it for a DELETE task
WorkerStep ==
    /\ worker.busy
    /\ worker.todo # <<>>
    /\ LET task == worker.task
           dst == Head(worker.todo)
           copyFails == task.record.method = "PUT"
                        /\ (task.sourceClient = NoClient \/ ~replicas[task.sourceClient].present)
       IN /\ replicas' = IF task.record.method = "PUT"
                         THEN IF copyFails THEN replicas
                              ELSE [replicas EXCEPT ![dst] = replicas[task.sourceClient]]
                         ELSE [replicas EXCEPT ![dst] = NotStored]
          /\ worker' = [worker EXCEPT !.todo = Tail(@), !.failed = @ \/ copyFails]
          /\ hist' = [hist EXCEPT ![task.entry].todo = @ \ {<<task.kind, dst>>}]
    /\ UNCHANGED <<target, wlog, inflight, walEntriesChannel, ringCached,
                   pendingTasks, nextEntry, quietV>>
    /\ UNCHANGED notWalVars

\* the task is complete: the executor runs the hook the task carries
WorkerFinish ==
    /\ worker.busy
    /\ worker.todo = <<>>
    /\ LET task == worker.task
           err == IF worker.failed THEN "migration" ELSE ""
           record == hist[task.entry].record
       IN /\ IF task.hook = "real"
             THEN /\ wlog' = IF HookKeepsRecord(err) THEN wlog ELSE wlog \ {record}
                  /\ inflight' = inflight \ {record}
                  /\ hist' = [hist EXCEPT ![task.entry] =
                               [@ EXCEPT !.done = @ \cup {task.kind},
                                         !.hookCalls = @ + 1, !.hookErr = err]]
             ELSE /\ hist' = [hist EXCEPT ![task.entry].done = @ \cup {task.kind}]
                  /\ UNCHANGED <<wlog, inflight>>
    /\ worker' = IdleWorker
    /\ UNCHANGED <<replicas, target, walEntriesChannel, ringCached,
                   pendingTasks, nextEntry, quietV>>
    /\ UNCHANGED notWalVars

\* the newest write of the object is a committed PUT: its record is in the
\* log, a replica holds its version and nothing carries a larger version
CommittedNewestPut(log, store) ==
    LET vs == { r.objectVersion : r \in
                  { x \in log : /\ x.method = "PUT" /\ x.objectID = WellFormedID
                                /\ \E e \in Endpoints : store[e] = [present |-> TRUE,
                                                                   version |-> x.objectVersion]
                                /\ \A e \in Endpoints : store[e].version <= x.objectVersion
                                /\ \A y \in log : y.objectVersion <= x.objectVersion } }
    IN IF vs = {} THEN 0 ELSE CHOOSE v \in vs : TRUE

(***************************************************************************)
(* Version fetcher: one call of S3VersionFetcher.Fetch on any HEAD answer  *)
(***************************************************************************)
\* characters of a version header value, and the values tried; <<>> is what
\* Header.Get returns when the header is absent
HeaderChars == {"-", "1", "7", "x"}
RawHeaders == UNION { [1..n -> HeaderChars] : n \in 0..2 }

DigitValue(c) == IF c = "1" THEN 1 ELSE 7
IsDigit(c) == c \in {"1", "7"}

\* value of a non-empty string of digits
RECURSIVE DigitsValue(_)
DigitsValue(digits) ==
    IF Len(digits) = 1 THEN DigitValue(digits[1])
    ELSE 10 * DigitsValue(SubSeq(digits, 1, Len(digits) - 1))
         + DigitValue(digits[Len(digits)])

\* strconv.ParseInt(s, 10, 64): an optional sign, then at least one digit
ParseInt(raw) ==
    LET negative == raw # <<>> /\ Head(raw) = "-"
        digits == IF negative THEN Tail(raw) ELSE raw
    IN IF digits = <<>> \/ \E i \in DOMAIN digits : ~IsDigit(digits[i])
       THEN [ok |-> FALSE, value |-> 0]
       ELSE [ok |-> TRUE,
             value |-> IF negative THEN 0 - DigitsValue(digits)
                       ELSE DigitsValue(digits)]

\* bucket.Head: an error ("404 Not Found" for a missing object, any other
\* text for a transport failure) or a response with a status and headers
HeadErrors == {"404 Not Found", "timeout"}
HeadStatuses == {200, 204, 403, 500}
HeadAnswers ==
    {[err |-> e, status |-> 0, rawHeader |-> <<>>] : e \in HeadErrors}
    \cup {[err |-> "", status |-> st, rawHeader |-> h] :
            st \in HeadStatuses, h \in RawHeaders}

\* the answer as Fetch reads it: the header goes through ParseInt
HeadAnswer(answer) ==
    [err |-> answer.err, status |-> answer.status,
     parsable |-> ParseInt(answer.rawHeader).ok,
     header |-> ParseInt(answer.rawHeader).value]

NotFetched == [called |-> FALSE, err |-> FALSE,
               state |-> [storageEndpoint |-> "", version |-> 0,
                          objectNotFound |-> FALSE],
               bucketName |-> <<>>, key |-> <<>>]

\* the object ids of the records surveyed: those of the reconciler and one
\* whose key has a "/" in it, "b/d/o"
SurveyedObjectIDs == ObjectIDs \cup { <<"b", "/", "d", "/", "o">> }

\* checkStoragesForObjectPresence: the bucket name and the key it hands to
\* Fetch, bucketAndKey[0] and bucketAndKey[1] of strings.Split(ObjectID, "/")
surveyTarget(objectID) ==
    LET bucketAndKey == Split(objectID)
    IN [bucketName |-> bucketAndKey[1], key |-> bucketAndKey[2]]

\* one HEAD of the survey of a record: checkStoragesForObjectPresence calls
\* S3VersionFetcher.Fetch for a replica, unless the object id is malformed
FetchCall ==
    /\ ~fetchResult.called
    /\ fetchInput.endpoint # ""
    /\ ~malformedObjectPath(Split(fetchInput.objectID))
    /\ LET res == Fetch(fetchInput.endpoint, HeadAnswer(fetchInput.answer))
           asked == surveyTarget(fetchInput.objectID)
       IN fetchResult' = [called |-> TRUE, err |-> res.err, state |-> res.state,
                          bucketName |-> asked.bucketName, key |-> asked.key]
    /\ UNCHANGED fetchInput
    /\ UNCHANGED notFetchVars

FetchIdle ==
    /\ fetchInput = [endpoint |-> "", objectID |-> <<>>,
                     answer |-> [err |-> "", status |-> 0, rawHeader |-> <<>>]]
    /\ fetchResult = NotFetched

(***************************************************************************)
(* Multipart round tripper: MultiPartRoundTripper                          *)
(* (internal/akubra/storages and the earlier storages package)             *)
(***************************************************************************)
MpEndpoints == {"x", "y"}
MpPaths == { <<"/", "b", "/", "o">>, <<"/", "b", "/", "p">> }
MpMethods == {"POST", "PUT"}
NoNode == ""

\* isInitiateMultiPartUploadRequest: the query has the parameter uploads
isInitiateMultiPartUploadRequest(query) == "uploads" \in query

\* containsUploadID
containsUploadID(query) == "uploadId" \in query

\* isMultiPartUploadRequest: what the shard client hands to Do
isMultiPartUploadRequest(query) ==
    isInitiateMultiPartUploadRequest(query) \/ containsUploadID(query)

\* raw queries of multipart requests, by the parameters they carry:
\* initiate, part upload, complete upload
MpQueries ==
    { q \in { {"uploads"}, {"uploadId", "partNumber"}, {"uploadId"} } :
        isMultiPartUploadRequest(q) }

KindOf(query) ==
    IF isInitiateMultiPartUploadRequest(query) THEN "initiate"
    ELSE IF "partNumber" \in query THEN "part" ELSE "complete"

\* what RoundTrip of a backend returns: an error without response, or a
\* response with a status and a body that xml.Unmarshal accepts as
\* CompleteMultipartUploadResult or not
NoHTTPResponse == [nil |-> TRUE, status |-> 0, parses |-> FALSE]
MpOutcomes ==
    {[httpResponse |-> NoHTTPResponse, requestError |-> TRUE]}
    \cup {[httpResponse |-> [nil |-> FALSE, status |-> st, parses |-> ps],
           requestError |-> FALSE] : st \in {200, 500}, ps \in BOOLEAN}

NoMpResult == [httpResponse |-> NoHTTPResponse, requestError |-> FALSE, backend |-> NoNode]

NoMpReq == [method |-> "", query |-> {}, path |-> <<>>,
            flagInContext |-> FALSE, clusterNameInContext |-> FALSE]

\* the watchdog field: the round tripper of internal/akubra/storages has
\* none, the one of the earlier storages package has one that may be nil
NoWatchdogField == "no field"
WatchdogValues == {NoWatchdogField, "nil", "set"}

\* an upload goes initiate (1), part (2), complete (3); a forwarded request
\* that is the upload's next step moves the path's progress on
Advance(progress, kind) ==
    IF kind = "initiate" /\ progress = 0 THEN 1
    ELSE IF kind = "part" /\ progress \in {1, 2} THEN 2
    ELSE IF kind = "complete" /\ progress = 2 THEN 3
    ELSE progress

NoSurvey == [done |-> FALSE, asked |-> {}, srcCli |-> NoClient]
NoGoroutines == [errorSender |-> "off", completion |-> "off"]
EmptyChannel == [delivered |-> <<>>, closed |-> FALSE]

\* faulty variant of newMultiPartRoundTripper: the Maintenance flag is not read
activeBackendsAll(backends) == DOMAIN backends

\* newMultiPartRoundTripper: the backends out of maintenance
activeBackends(backends) == { e \in DOMAIN backends : ~backends[e] }

\* faulty variant of canHandleMultiUpload: backends in maintenance count
canHandleMultiUploadAnyBackend == Cardinality(DOMAIN mpBackends) > 0

\* canHandleMultiUpload
canHandleMultiUpload == Cardinality(backendsRoundTrippers) > 0

\* faulty variant of pickBackend: the active backends take turns
pickBackendRoundRobin(objectPath) ==
    IF "x" \in backendsRoundTrippers
       /\ (mpCount % 2 = 0 \/ "y" \notin backendsRoundTrippers)
    THEN "x" ELSE "y"

\* pickBackend: the ring's node for the path, looked up among the round
\* trippers; NoNode when either lookup fails
pickBackend(objectPath) ==
    LET backendEndpoint == backendsRing[objectPath]
    IN IF backendEndpoint = NoNode THEN NoNode
       ELSE IF backendEndpoint \notin backendsRoundTrippers THEN NoNode
       ELSE backendEndpoint

\* responseContainsCompleteUploadString
responseContainsCompleteUploadString(response) == response.parses

\* faulty variant of isCompleteUploadResponseSuccessful: the status is not
\* looked at
isCompleteUploadResponseSuccessfulAnyStatus(response, rawQuery) ==
    /\ ~response.nil
    /\ "partNumber" \notin rawQuery
    /\ responseContainsCompleteUploadString(response)

\* isCompleteUploadResponseSuccessful; rawQuery is response.Request.URL.RawQuery
isCompleteUploadResponseSuccessful(response, rawQuery) ==
    /\ ~response.nil
    /\ response.status = 200
    /\ "partNumber" \notin rawQuery
    /\ responseContainsCompleteUploadString(response)

\* the condition of the completion goroutine of Do
completeUploadSeen(request, httpResponse) ==
    /\ ~isInitiateMultiPartUploadRequest(request.query)
    /\ isCompleteUploadResponseSuccessful(httpResponse, request.query)

\* utils.ExtractBucketAndKey: both are non-empty for an object path
hasBucketAndKey(path) == Len(Split(Trim(path))) >= 2

\* faulty variant of updateExecutionTime: one update per active backend
updateExecutionTimePerBackend(request) ==
    IF ~hasBucketAndKey(request.path) THEN <<>>
    ELSE IF ~request.clusterNameInContext THEN <<>>
    ELSE [i \in 1..(1 + Cardinality(backendsRoundTrippers)) |->
            [objectID |-> TrimLeft(request.path),
             clusterName |-> "cluster of the request",
             delta |-> "minus one week"]]

\* updateExecutionTime: the calls of watchdog.UpdateExecutionTime it makes
updateExecutionTime(request) ==
    IF ~hasBucketAndKey(request.path) THEN <<>>
    ELSE IF ~request.clusterNameInContext THEN <<>>
    ELSE << [objectID |-> TrimLeft(request.path),
             clusterName |-> "cluster of the request",
             delta |-> "minus one week"] >>

BackendResponse(response, error, backend) ==
    [response |-> response, error |-> error, backend |-> backend,
     flagAtDelivery |-> multiPartUpload]

Deliver(message) ==
    backendResponseChannel' =
        [backendResponseChannel EXCEPT !.delivered = Append(@, message)]

\* the part of Do that runs before it returns the channel
DoStart(request) ==
    /\ mpCount' = mpCount + 1
    /\ mpReq' = request
    /\ multiPartUpload' = IF request.flagInContext THEN "false" ELSE "absent"
    /\ backendResponseChannel' = EmptyChannel
    /\ executionTimeUpdates' = <<>>
    /\ mpPc' = "running"
    /\ IF ~canHandleMultiUpload
       THEN /\ goroutines' = [errorSender |-> "off", completion |-> "impossible"]
            /\ mpResult' = NoMpResult
            /\ UNCHANGED <<contacted, uploadProgress>>
       ELSE LET multiUploadBackend == pickBackend(request.path)
            IN IF multiUploadBackend = NoNode
               THEN /\ goroutines' = [errorSender |-> "off",
                                      completion |-> "noBackend"]
                    /\ mpResult' = NoMpResult
                    /\ UNCHANGED <<contacted, uploadProgress>>
               ELSE \E outcome \in MpOutcomes :
                      /\ mpResult' = [httpResponse |-> outcome.httpResponse,
                                      requestError |-> outcome.requestError,
                                      backend |-> multiUploadBackend]
                      /\ contacted' =
                           [contacted EXCEPT
                              ![request.path] = @ \cup {multiUploadBackend}]
                      /\ uploadProgress' =
                           [uploadProgress EXCEPT
                              ![request.path] = Advance(@, KindOf(request.query))]
                      /\ goroutines' =
                           [errorSender |-> IF outcome.requestError
                                            THEN "send" ELSE "off",
                            completion |-> "check"]
    /\ UNCHANGED <<mpBackends, backendsRoundTrippers, backendsRing, mpWatchdog, mpSurvey>>
    /\ UNCHANGED notMpVars

\* MultiPartRoundTripper.Do of internal/akubra/storages
Do ==
    /\ mpPc \in {"idle", "done"}
    /\ mpCount < MaxRequests
    /\ ~mpSurvey.done
    /\ mpWatchdog = NoWatchdogField
    /\ \E m \in MpMethods, q \in MpQueries, p \in MpPaths, f \in BOOLEAN :
         DoStart([method |-> m, query |-> q, path |-> p,
                  flagInContext |-> f, clusterNameInContext |-> FALSE])

\* MultiPartRoundTripper.Do of the earlier storages package
DoStorages ==
    /\ mpPc \in {"idle", "done"}
    /\ mpCount < MaxRequests
    /\ ~mpSurvey.done
    /\ mpWatchdog # NoWatchdogField
    /\ \E m \in MpMethods, q \in MpQueries, p \in MpPaths, c \in BOOLEAN :
         DoStart([method |-> m, query |-> q, path |-> p,
                  flagInContext |-> FALSE, clusterNameInContext |-> c])

\* the reconciler surveys the shard for a PUT record of the object while no
\* request is in flight, and plans the migration within the shard; the
\* requests are followed up to this survey
SurveyShard ==
    /\ mpPc \in {"idle", "done"}
    /\ ~mpSurvey.done
    /\ \E store \in [MpEndpoints -> {NotStored, [present |-> TRUE, version |-> 1]}] :
         LET record == [objectID |-> WellFormedID, method |-> "PUT", objectVersion |-> 1]
             state == fetchVersionsFromStorages(record, MpShard, store,
                                                [kind |-> "none", endpoint |-> ""])
             m == prepareShardMigration(record, state)
         IN mpSurvey' = [done |-> TRUE, asked |-> SeqToSet(state.asked),
                         srcCli |-> m.srcCli]
    /\ UNCHANGED <<mpBackends, backendsRoundTrippers, backendsRing, mpWatchdog, mpPc,
                   mpReq, multiPartUpload, mpResult, goroutines, backendResponseChannel,
                   contacted, uploadProgress, executionTimeUpdates, mpCount>>
    /\ UNCHANGED notMpVars

\* the goroutine of the two early returns: one response, then close
NoBackendGoroutine ==
    /\ mpPc = "running"
    /\ goroutines.completion \in {"impossible", "noBackend"}
    /\ backendResponseChannel' =
         [delivered |-> Append(backendResponseChannel.delivered,
              BackendResponse(NoHTTPResponse,
                              IF goroutines.completion = "impossible"
                              THEN "can't handle multi upload"
                              ELSE "replication required",
                              NoNode)),
          closed |-> TRUE]
    /\ goroutines' = [goroutines EXCEPT !.completion = "done"]
    /\ mpPc' = "done"
    /\ UNCHANGED <<mpBackends, backendsRoundTrippers, backendsRing, mpWatchdog, mpSurvey,
                   mpReq, multiPartUpload, mpResult, contacted, uploadProgress,
                   executionTimeUpdates, mpCount>>
    /\ UNCHANGED notMpVars

\* the goroutine started when RoundTrip failed: it sends the error response;
\* a send on the channel the other goroutine has closed panics
ErrorSenderGoroutine ==
    /\ mpPc = "running"
    /\ goroutines.errorSender = "send"
    /\ IF backendResponseChannel.closed
       THEN /\ mpPc' = "panic"
            /\ UNCHANGED backendResponseChannel
       ELSE /\ Deliver(BackendResponse(mpResult.httpResponse, "request error",
                                       mpResult.backend))
            /\ mpPc' = IF goroutines.completion = "done" THEN "done" ELSE mpPc
    /\ goroutines' = [goroutines EXCEPT !.errorSender = "done"]
    /\ UNCHANGED <<mpBackends, backendsRoundTrippers, backendsRing, mpWatchdog, mpSurvey,
                   mpReq, multiPartUpload, mpResult, contacted, uploadProgress,
                   executionTimeUpdates, mpCount>>
    /\ UNCHANGED notMpVars

\* completion goroutine of internal/akubra/storages, up to its send: a
\* complete upload seen sets the context flag, if the context has one
CompletionCheck ==
    /\ mpPc = "running"
    /\ mpWatchdog = NoWatchdogField
    /\ goroutines.completion = "check"
    /\ multiPartUpload' =
         IF completeUploadSeen(mpReq, mpResult.httpResponse)
            /\ multiPartUpload # "absent"
         THEN "true" ELSE multiPartUpload
    /\ goroutines' = [goroutines EXCEPT !.completion = "send"]
    /\ UNCHANGED <<mpBackends, backendsRoundTrippers, backendsRing, mpWatchdog, mpSurvey,
                   mpPc, mpReq, mpResult, backendResponseChannel, contacted,
                   uploadProgress, executionTimeUpdates, mpCount>>
    /\ UNCHANGED notMpVars

\* completion goroutine of the earlier storages package, up to its last
\* send: a complete upload seen updates the execution time when there is a
\* watchdog, and every other active backend gets a "sync" response
CompletionCheckStorages ==
    /\ mpPc = "running"
    /\ mpWatchdog # NoWatchdogField
    /\ goroutines.completion = "check"
    /\ IF completeUploadSeen(mpReq, mpResult.httpResponse)
       THEN /\ executionTimeUpdates' =
                 IF mpWatchdog # "nil"
                 THEN executionTimeUpdates \o updateExecutionTime(mpReq)
                 ELSE executionTimeUpdates
            /\ \E order \in Perms(backendsRoundTrippers \ {mpResult.backend}) :
                 backendResponseChannel' =
                    [backendResponseChannel EXCEPT !.delivered =
                        @ \o [i \in DOMAIN order |->
                                BackendResponse(NoHTTPResponse,
                                    "sync multipart upload", order[i])]]
       ELSE UNCHANGED <<executionTimeUpdates, backendResponseChannel>>
    /\ goroutines' = [goroutines EXCEPT !.completion = "send"]
    /\ UNCHANGED <<mpBackends, backendsRoundTrippers, backendsRing, mpWatchdog, mpSurvey,
                   mpPc, mpReq, multiPartUpload, mpResult, contacted,
                   uploadProgress, mpCount>>
    /\ UNCHANGED notMpVars

\* completion goroutine: the send of the backend's response
CompletionSend ==
    /\ mpPc = "running"
    /\ goroutines.completion = "send"
    /\ Deliver(BackendResponse(mpResult.httpResponse,
                               IF mpResult.requestError THEN "request error" ELSE "",
                               mpResult.backend))
    /\ goroutines' = [goroutines EXCEPT !.completion = "close"]
    /\ UNCHANGED <<mpBackends, backendsRoundTrippers, backendsRing, mpWatchdog, mpSurvey,
                   mpPc, mpReq, multiPartUpload, mpResult, contacted,
                   uploadProgress, executionTimeUpdates, mpCount>>
    /\ UNCHANGED notMpVars

\* completion goroutine: close(backendResponseChannel)
CompletionClose ==
    /\ mpPc = "running"
    /\ goroutines.completion = "close"
    /\ backendResponseChannel' = [backendResponseChannel EXCEPT !.closed = TRUE]
    /\ goroutines' = [goroutines EXCEPT !.completion = "done"]
    /\ mpPc' = IF goroutines.errorSender = "send" THEN mpPc ELSE "done"
    /\ UNCHANGED <<mpBackends, backendsRoundTrippers, backendsRing, mpWatchdog, mpSurvey,
                   mpReq, multiPartUpload, mpResult, contacted, uploadProgress,
                   executionTimeUpdates, mpCount>>
    /\ UNCHANGED notMpVars

\* a round tripper that was never built: no backend, no request
MpIdle ==
    /\ mpBackends = <<>>
    /\ backendsRoundTrippers = {}
    /\ backendsRing = [p \in MpPaths |-> NoNode]
    /\ mpWatchdog = NoWatchdogField
    /\ mpSurvey = NoSurvey
    /\ mpPc = "off"
    /\ mpReq = NoMpReq
    /\ multiPartUpload = "absent"
    /\ mpResult = NoMpResult
    /\ goroutines = NoGoroutines
    /\ backendResponseChannel = EmptyChannel
    /\ contacted = [p \in MpPaths |-> {}]
    /\ uploadProgress = [p \in MpPaths |-> 0]
    /\ executionTimeUpdates = <<>>
    /\ mpCount = 0

(***************************************************************************)
(* Consistency log: version supply for the writes of one object            *)
(* (SupplyRecordWithVersion, Insert, Delete), with concurrent writers      *)
(***************************************************************************)
Writers == {"w1", "w2"}
LogReplicas == {"a", "b"}

NoVersion == 0
IdleWriter == [pc |-> "idle", version |-> NoVersion, sent |-> {}]

\* the log hands out the successor of the last version it handed out
supplyVersionStale(clock) == clock

supplyVersion(clock) == clock + 1

\* SupplyRecordWithVersion(record): one atomic step of the log
SupplyRecordWithVersion(w) ==
    /\ writer[w].pc = "idle"
    /\ versionClock < MaxWrites
    /\ versionClock' = supplyVersion(versionClock)
    /\ issued' = Append(issued, versionClock')
    /\ writer' = [writer EXCEPT ![w] = [pc |-> "supplied",
                                        version |-> versionClock',
                                        sent |-> {}]]
    /\ UNCHANGED <<vrecords, vstored>>
    /\ UNCHANGED notLogVars

\* Insert(record): atomic; a failed insert aborts the write (level strong)
InsertRecord(w) ==
    /\ writer[w].pc = "supplied"
    /\ \E ok \in BOOLEAN :
         IF ok
         THEN /\ vrecords' = vrecords \cup
                    {[version |-> writer[w].version, live |-> TRUE]}
              /\ writer' = [writer EXCEPT ![w].pc = "inserted"]
         ELSE /\ vrecords' = vrecords
              /\ writer' = [writer EXCEPT ![w] = IdleWriter]
    /\ UNCHANGED <<versionClock, issued, vstored>>
    /\ UNCHANGED notLogVars

\* dispatch to one replica: the replica stores the object with the
\* record's version in its version header
ReplicaWrite(w) ==
    /\ writer[w].pc = "inserted"
    /\ \E e \in LogReplicas \ writer[w].sent :
         /\ vstored' = [vstored EXCEPT ![e] = writer[w].version]
         /\ writer' = [writer EXCEPT ![w].sent = @ \cup {e}]
    /\ UNCHANGED <<versionClock, issued, vrecords>>
    /\ UNCHANGED notLogVars

\* completion: the record is deleted iff every replica took the write;
\* a replica the writer did not reach is one whose call failed
WriteCompletion(w) ==
    /\ writer[w].pc = "inserted"
    /\ vrecords' =
         IF writer[w].sent = LogReplicas
         THEN (vrecords \ {[version |-> writer[w].version, live |-> TRUE]})
                 \cup {[version |-> writer[w].version, live |-> FALSE]}
         ELSE vrecords
    /\ writer' = [writer EXCEPT ![w] = IdleWriter]
    /\ UNCHANGED <<versionClock, issued, vstored>>
    /\ UNCHANGED notLogVars

LogIdle ==
    /\ versionClock = 0
    /\ issued = <<>>
    /\ writer = [w \in Writers |-> IdleWriter]
    /\ vrecords = {}
    /\ vstored = [e \in LogReplicas |-> NoVersion]

WalIdle ==
    /\ replicas = [e \in Endpoints |-> NotStored]
    /\ target = "s1"
    /\ wlog = {}
    /\ inflight = {}
    /\ walEntriesChannel = <<>>
    /\ ringCached = FALSE
    /\ pendingTasks = <<>>
    /\ worker = IdleWorker
    /\ nextEntry = 1
    /\ hist = [i \in 1..MaxEntries |-> NoHist]
    /\ quietV = 0

ProxyIdle ==
    /\ shardsCfg = <<"s1">>
    /\ ringNodes = {"s1"}
    /\ ringProps = [consistencyLevel |-> "none", readRepair |-> FALSE]
    /\ pc = "off"
    /\ req = NoReq
    /\ origCluster = NoShard
    /\ cl = NoShard
    /\ sends = Zero
    /\ fanout = Zero
    /\ picks = 0
    /\ closedBodies = Zero
    /\ ringResult = NoResult
    /\ rrSlot = "absent"
    /\ gate = GateIdle
    /\ glog = {}

(***************************************************************************)
(* ConsistencyRecord: AddBackendResult and IsReflectedOnAllStorages, called *)
(* by the goroutines that collect the replicas' answers                    *)
(***************************************************************************)
\* the goroutines that record a replica's result, and the one that asks
Recorders == 1..MaxResults
Asker == 0
NoHolder == -1

IdleCall == [pc |-> "idle", wasSuccessfullOnBackend |-> TRUE, loaded |-> TRUE]

\* the record as CreateRecordFor returns it, before any goroutine uses it
NewConsistencyRecord ==
    [isReflectedOnBackends |-> TRUE, mx |-> NoHolder,
     calls |-> [g \in Recorders |-> IdleCall],
     recorded |-> <<>>, askerPc |-> "idle", answers |-> <<>>]

RecordIdle ==
    consistencyRecord = [NewConsistencyRecord EXCEPT !.askerPc = "off"]

\* faulty variant of the mutex: Lock never waits
LockNeverWaits(mx) == TRUE

\* record.mx.Lock(): returns once no goroutine holds the mutex
Lock(mx) == mx = NoHolder

\* AddBackendResult: record.mx.Lock()
AddBackendResultLock(g) ==
    /\ consistencyRecord.askerPc # "off"
    /\ consistencyRecord.calls[g].pc = "idle"
    /\ Lock(consistencyRecord.mx)
    /\ \E b \in BOOLEAN :
         consistencyRecord' =
            [consistencyRecord EXCEPT !.mx = g,
                                      !.calls[g].pc = "locked",
                                      !.calls[g].wasSuccessfullOnBackend = b]
    /\ UNCHANGED notRecordVars

\* AddBackendResult: the read of record.isReflectedOnBackends
AddBackendResultLoad(g) ==
    /\ consistencyRecord.calls[g].pc = "locked"
    /\ consistencyRecord' =
          [consistencyRecord EXCEPT !.calls[g].pc = "loaded",
                                    !.calls[g].loaded = consistencyRecord.isReflectedOnBackends]
    /\ UNCHANGED notRecordVars

\* AddBackendResult: the assignment to record.isReflectedOnBackends
AddBackendResultStore(g) ==
    /\ consistencyRecord.calls[g].pc = "loaded"
    /\ consistencyRecord' =
          [consistencyRecord EXCEPT
              !.calls[g].pc = "stored",
              !.isReflectedOnBackends =
                  consistencyRecord.calls[g].loaded
                  /\ consistencyRecord.calls[g].wasSuccessfullOnBackend,
              !.recorded = Append(@, consistencyRecord.calls[g].wasSuccessfullOnBackend)]
    /\ UNCHANGED notRecordVars

\* AddBackendResult: the deferred record.mx.Unlock()
AddBackendResultUnlock(g) ==
    /\ consistencyRecord.calls[g].pc = "stored"
    /\ consistencyRecord' =
          [consistencyRecord EXCEPT !.calls[g].pc = "done", !.mx = NoHolder]
    /\ UNCHANGED notRecordVars

\* IsReflectedOnAllStorages: record.mx.Lock()
IsReflectedOnAllStoragesLock ==
    /\ consistencyRecord.askerPc = "idle"
    /\ Len(consistencyRecord.answers) < MaxReads
    /\ Lock(consistencyRecord.mx)
    /\ consistencyRecord' = [consistencyRecord EXCEPT !.mx = Asker, !.askerPc = "locked"]
    /\ UNCHANGED notRecordVars

\* IsReflectedOnAllStorages: the value returned, then the deferred Unlock;
\* the answer is kept with the number of results recorded before it
IsReflectedOnAllStoragesReturn ==
    /\ consistencyRecord.askerPc = "locked"
    /\ consistencyRecord' =
          [consistencyRecord EXCEPT
              !.askerPc = "idle",
              !.mx = NoHolder,
              !.answers = Append(@, [value |-> consistencyRecord.isReflectedOnBackends,
                                     after |-> Len(consistencyRecord.recorded)])]
    /\ UNCHANGED notRecordVars

(***************************************************************************)
(* Filter stage as a goroutine between two channels: DefaultWALFilter.Filter *)
(***************************************************************************)
\* the two sends in the other order
entryTasksCleanupFirst(id) == << [entry |-> id, kind |-> "cleanup"], [entry |-> id, kind |-> "migration"] >>

\* the two tasks Filter sends for an entry, in the order of its two sends
entryTasks(id) == << [entry |-> id, kind |-> "migration"], [entry |-> id, kind |-> "cleanup"] >>

\* the state right after Filter returned tasksChannel: queued entries were
\* already waiting in walEntriesChannel, whose capacity is entriesCap;
\* "make(chan *model.WALTask, len(walEntriesChannel))"
NewPipe(entriesCap, queued) ==
    [entriesCap |-> entriesCap,
     walEntriesChannel |-> [i \in 1..queued |-> i],
     fed |-> queued,
     entriesClosed |-> FALSE,
     tasksCap |-> queued,
     tasksChannel |-> <<>>,
     tasksClosed |-> FALSE,
     filterPc |-> "receive",
     toSend |-> <<>>,
     received |-> <<>>,
     errHooks |-> [i \in 1..MaxEntries |-> 0],
     sent |-> <<>>,
     consumerPc |-> "receive",
     got |-> <<>>]

PipeIdle == pipe = [NewPipe(0, 0) EXCEPT !.filterPc = "off", !.consumerPc = "off"]

\* the log scan sends an entry into walEntriesChannel: it blocks while the
\* channel is full
ProducerSend ==
    /\ pipe.filterPc # "off"
    /\ ~pipe.entriesClosed
    /\ pipe.fed < MaxEntries
    /\ Len(pipe.walEntriesChannel) < pipe.entriesCap
    /\ pipe' = [pipe EXCEPT !.walEntriesChannel = Append(@, pipe.fed + 1), !.fed = @ + 1]
    /\ UNCHANGED notPipeVars

\* the log scan closes walEntriesChannel
ProducerClose ==
    /\ pipe.filterPc # "off"
    /\ ~pipe.entriesClosed
    /\ pipe' = [pipe EXCEPT !.entriesClosed = TRUE]
    /\ UNCHANGED notPipeVars

\* "for walEntry := range walEntriesChannel": the goroutine receives the
\* next entry, from the buffer or straight from the sender when the channel
\* has no buffer, and handles it: finishWithError, or the two tasks to send
FilterReceive ==
    /\ pipe.filterPc = "receive"
    /\ LET direct == /\ pipe.walEntriesChannel = <<>>
                     /\ pipe.entriesCap = 0
                     /\ ~pipe.entriesClosed
                     /\ pipe.fed < MaxEntries
           id == IF direct THEN pipe.fed + 1 ELSE Head(pipe.walEntriesChannel)
       IN /\ direct \/ pipe.walEntriesChannel # <<>>
          /\ \E err \in BOOLEAN :
               pipe' = [pipe EXCEPT
                          !.walEntriesChannel = IF direct THEN @ ELSE Tail(@),
                          !.fed = IF direct THEN @ + 1 ELSE @,
                          !.received = Append(@, id),
                          !.errHooks[id] = IF err THEN @ + 1 ELSE @,
                          !.toSend = IF err THEN <<>> ELSE entryTasks(id),
                          !.filterPc = IF err THEN "receive" ELSE "send"]
    /\ UNCHANGED notPipeVars

\* "tasksChannel <- task" into a free slot of the buffer
FilterSend ==
    /\ pipe.filterPc = "send"
    /\ Len(pipe.tasksChannel) < pipe.tasksCap
    /\ pipe' = [pipe EXCEPT !.tasksChannel = Append(@, Head(pipe.toSend)),
                            !.sent = Append(@, Head(pipe.toSend)),
                            !.toSend = Tail(@),
                            !.filterPc = IF Len(pipe.toSend) = 1 THEN "receive" ELSE "send"]
    /\ UNCHANGED notPipeVars

\* "tasksChannel <- task" on a channel without buffer: the send completes
\* when the consumer receives
FilterHandOver ==
    /\ pipe.filterPc = "send"
    /\ pipe.tasksCap = 0
    /\ pipe.consumerPc = "receive"
    /\ pipe' = [pipe EXCEPT !.got = Append(@, Head(pipe.toSend)),
                            !.sent = Append(@, Head(pipe.toSend)),
                            !.toSend = Tail(@),
                            !.filterPc = IF Len(pipe.toSend) = 1 THEN "receive" ELSE "send"]
    /\ UNCHANGED notPipeVars

\* the range loop ends on the closed, drained walEntriesChannel and the
\* goroutine returns
FilterExit ==
    /\ pipe.filterPc = "receive"
    /\ pipe.walEntriesChannel = <<>>
    /\ pipe.entriesClosed
    /\ pipe' = [pipe EXCEPT !.filterPc = "exited"]
    /\ UNCHANGED notPipeVars

\* the executor's receive on tasksChannel: a buffered task, or the end of
\* its loop when the channel is closed and drained
ConsumerReceive ==
    /\ pipe.consumerPc = "receive"
    /\ pipe.tasksChannel # <<>> \/ pipe.tasksClosed
    /\ pipe' = IF pipe.tasksChannel # <<>>
               THEN [pipe EXCEPT !.got = Append(@, Head(pipe.tasksChannel)),
                                 !.tasksChannel = Tail(@)]
               ELSE [pipe EXCEPT !.consumerPc = "exited"]
    /\ UNCHANGED notPipeVars

(***************************************************************************)
(* Specification of the request path: gate in front of the dispatcher      *)
(***************************************************************************)
InitProxy ==
    /\ shardsCfg \in ShardLists
    /\ ringNodes \in {Names(shardsCfg), {}}
    /\ ringProps \in [consistencyLevel : ConsistencyLevels, readRepair : BOOLEAN]
    /\ pc = "idle"
    /\ req = NoReq
    /\ origCluster = NoShard
    /\ cl = NoShard
    /\ sends = Zero
    /\ fanout = Zero
    /\ picks = 0
    /\ closedBodies = Zero
    /\ ringResult = NoResult
    /\ rrSlot = "absent"
    /\ gate = GateIdle
    /\ glog = {}
    /\ WalIdle
    /\ LogIdle
    /\ MpIdle
    /\ FetchIdle
    /\ RegionIdle
    /\ RecordIdle
    /\ PipeIdle

NextProxy ==
    \/ GateDoRequest
    \/ AllClustersRoundTrip
    \/ RegressionCall
    \/ ContextDone
    \/ AwaitCompletion

SpecProxy == InitProxy /\ [][NextProxy]_vars

(***************************************************************************)
(* Specification of the reconciler                                         *)
(***************************************************************************)
InitWAL ==
    /\ replicas \in [Endpoints -> StoreValues]
    /\ target \in WalShards
    /\ wlog \in { L \in SUBSET Records :
                    /\ Cardinality(L) <= MaxRecords
                    /\ \A x, y \in L : x # y => x.objectVersion # y.objectVersion }
    /\ inflight = {}
    /\ walEntriesChannel = <<>>
    /\ ringCached = FALSE
    /\ pendingTasks = <<>>
    /\ worker = IdleWorker
    /\ nextEntry = 1
    /\ hist = [i \in 1..MaxEntries |-> NoHist]
    /\ quietV = CommittedNewestPut(wlog, replicas)
    /\ ProxyIdle
    /\ LogIdle
    /\ MpIdle
    /\ FetchIdle
    /\ RegionIdle
    /\ RecordIdle
    /\ PipeIdle

NextWAL ==
    \/ Feed
    \/ Filter
    \/ WorkerReceive
    \/ WorkerStep
    \/ WorkerFinish

SpecWAL == InitWAL /\ [][NextWAL]_vars

\* the reconciler started on a log that holds several records of one object,
\* left by writes of different versions
InitWALPair ==
    /\ replicas \in [Endpoints -> StoreValues]
    /\ target \in WalShards
    /\ wlog \in { L \in SUBSET { r \in Records : r.objectID = WellFormedID } :
                    /\ Cardinality(L) >= 2
                    /\ Cardinality(L) <= MaxObjectRecords
                    /\ \A x, y \in L : x # y => x.objectVersion # y.objectVersion }
    /\ inflight = {}
    /\ walEntriesChannel = <<>>
    /\ ringCached = FALSE
    /\ pendingTasks = <<>>
    /\ worker = IdleWorker
    /\ nextEntry = 1
    /\ hist = [i \in 1..MaxEntries |-> NoHist]
    /\ quietV = CommittedNewestPut(wlog, replicas)
    /\ ProxyIdle
    /\ LogIdle
    /\ MpIdle
    /\ FetchIdle
    /\ RegionIdle
    /\ RecordIdle
    /\ PipeIdle

SpecWALPair == InitWALPair /\ [][NextWAL]_vars

(***************************************************************************)
(* Specification of the version supply                                     *)
(***************************************************************************)
InitLog ==
    /\ LogIdle
    /\ WalIdle
    /\ ProxyIdle
    /\ MpIdle
    /\ FetchIdle
    /\ RegionIdle
    /\ RecordIdle
    /\ PipeIdle

NextLog ==
    \/ \E w \in Writers : SupplyRecordWithVersion(w)
    \/ \E w \in Writers : InsertRecord(w)
    \/ \E w \in Writers : ReplicaWrite(w)
    \/ \E w \in Writers : WriteCompletion(w)

SpecLog == InitLog /\ [][NextLog]_vars

(***************************************************************************)
(* Specification of the multipart round tripper                            *)
(***************************************************************************)
\* newMultiPartRoundTripper over any list of backends; hashring.GetNode is
\* a fixed function of the path onto the ring's nodes
InitMultiPart ==
    /\ mpBackends \in UNION { [B -> BOOLEAN] : B \in SUBSET MpEndpoints }
    /\ backendsRoundTrippers = activeBackends(mpBackends)
    /\ backendsRing \in
         IF activeBackends(mpBackends) = {}
         THEN {[p \in MpPaths |-> NoNode]}
         ELSE [MpPaths -> activeBackends(mpBackends)]
    /\ mpWatchdog \in WatchdogValues
    /\ mpSurvey = NoSurvey
    /\ mpPc = "idle"
    /\ mpReq = NoMpReq
    /\ multiPartUpload = "absent"
    /\ mpResult = NoMpResult
    /\ goroutines = NoGoroutines
    /\ backendResponseChannel = EmptyChannel
    /\ contacted = [p \in MpPaths |-> {}]
    /\ uploadProgress = [p \in MpPaths |-> 0]
    /\ executionTimeUpdates = <<>>
    /\ mpCount = 0
    /\ ProxyIdle
    /\ WalIdle
    /\ LogIdle
    /\ FetchIdle
    /\ RegionIdle
    /\ RecordIdle
    /\ PipeIdle

NextMultiPart ==
    \/ Do
    \/ SurveyShard
    \/ DoStorages
    \/ NoBackendGoroutine
    \/ ErrorSenderGoroutine
    \/ CompletionCheck
    \/ CompletionCheckStorages
    \/ CompletionSend
    \/ CompletionClose

SpecMultiPart == InitMultiPart /\ [][NextMultiPart]_vars

(***************************************************************************)
(* Specification of the version fetcher                                    *)
(***************************************************************************)
InitFetch ==
    /\ fetchInput \in [endpoint : Endpoints, objectID : SurveyedObjectIDs,
                        answer : HeadAnswers]
    /\ fetchResult = NotFetched
    /\ ProxyIdle
    /\ WalIdle
    /\ LogIdle
    /\ MpIdle
    /\ RegionIdle
    /\ RecordIdle
    /\ PipeIdle

NextFetch == FetchCall

SpecFetch == InitFetch /\ [][NextFetch]_vars

(***************************************************************************)
(* Specification of the region ring built by RegionRing                    *)
(***************************************************************************)
InitRegion ==
    /\ \E sh \in ShardLists, w \in BOOLEAN :
         region = [shards |-> sh, watchdog |-> w, pc |-> "idle", req |-> NoRegionReq,
                   cl |-> NoShard, origCluster |-> NoShard, tried |-> <<>>,
                   forwarded |-> {}, answers |-> {}, inserted |-> {},
                   result |-> NoResponse]
    /\ ProxyIdle
    /\ WalIdle
    /\ LogIdle
    /\ MpIdle
    /\ FetchIdle
    /\ RecordIdle
    /\ PipeIdle

NextRegion ==
    \/ RegionDoRequest
    \/ ShardRoundTrip

SpecRegion == InitRegion /\ [][NextRegion]_vars

(***************************************************************************)
(* Specification of the ConsistencyRecord shared by goroutines             *)
(***************************************************************************)
InitRecord ==
    /\ consistencyRecord = NewConsistencyRecord
    /\ ProxyIdle
    /\ WalIdle
    /\ LogIdle
    /\ MpIdle
    /\ FetchIdle
    /\ RegionIdle
    /\ PipeIdle

NextRecord ==
    \/ \E g \in Recorders : AddBackendResultLock(g)
    \/ \E g \in Recorders : AddBackendResultLoad(g)
    \/ \E g \in Recorders : AddBackendResultStore(g)
    \/ \E g \in Recorders : AddBackendResultUnlock(g)
    \/ IsReflectedOnAllStoragesLock
    \/ IsReflectedOnAllStoragesReturn

SpecRecord == InitRecord /\ [][NextRecord]_vars

(***************************************************************************)
(* Specification of the filter stage between its channels                  *)
(***************************************************************************)
InitPipe ==
    /\ \E entriesCap \in 0..MaxQueued :
         \E queued \in 0..entriesCap : pipe = NewPipe(entriesCap, queued)
    /\ ProxyIdle
    /\ WalIdle
    /\ LogIdle
    /\ MpIdle
    /\ FetchIdle
    /\ RegionIdle
    /\ RecordIdle

NextPipe ==
    \/ ProducerSend
    \/ ProducerClose
    \/ FilterReceive
    \/ FilterSend
    \/ FilterHandOver
    \/ FilterExit
    \/ ConsumerReceive

SpecPipe == InitPipe /\ [][NextPipe]_vars

(***************************************************************************)
(* Properties of the request path                                          *)
(***************************************************************************)
Returned == pc \in {"returned", "ctxDone", "completed"}

\* number of path segments: maximal runs of characters other than "/"
RECURSIVE SegmentCount(_, _)
SegmentCount(path, inSegment) ==
    IF path = <<>> THEN 0
    ELSE IF Head(path) = Slash THEN SegmentCount(Tail(path), FALSE)
    ELSE (IF inSegment THEN 0 ELSE 1) + SegmentCount(Tail(path), TRUE)

Segments(path) == SegmentCount(path, FALSE)

\* C4: the regression chain contacts each shard at most once, never sends to
\* the originally picked shard a second time, and has returned after at most
\* as many sends as the region has shards
C4_RegressionTerminates ==
    /\ \A s \in ShardNames : sends[s] <= 1
    /\ \A s \in ShardNames : sends[s] > 0 => s \in Names(shardsCfg)
    /\ TotalSends <= Len(shardsCfg)
    /\ (pc = "send" /\ TotalSends > 0) => (cl # origCluster /\ sends[cl] = 0)
    /\ pc = "send" => TotalSends < Len(shardsCfg) /\ TotalSends < MaxSends

\* the same, for the regions whose shard list names every shard once
RegressionTerminatesNamedOnce ==
    (\A i, j \in DOMAIN shardsCfg : i # j => shardsCfg[i] # shardsCfg[j])
        => C4_RegressionTerminates

\* C5: a DELETE on any path, and any request on a single-segment path, goes
\* to every shard of the region exactly once, with no Pick and no regression
C5_BucketDeleteFanOut ==
    (Returned /\ (req.method = "DELETE" \/ Segments(req.path) = 1))
    => /\ \A s \in ShardNames :
            fanout[s] = IF s \in Names(shardsCfg) THEN 1 ELSE 0
       /\ picks = 0
       /\ TotalSends = 0
       /\ origCluster = NoShard

\* a PUT on the bucket path "/b" was fanned out over a three-shard region
C5_Witness ==
    /\ pc = "returned"
    /\ req.method = "PUT"
    /\ req.path = <<"/", "b">>
    /\ Len(shardsCfg) = 3
    /\ \A s \in ShardNames : fanout[s] = 1

C7_InsertFailure ==
    (pc # "idle" /\ gate.insertFailed) =>
        /\ ringProps.consistencyLevel = "strong"
             => /\ pc = "aborted"
                /\ GateError = "log"
                /\ ~ringResult.called
                /\ picks = 0 /\ TotalSends = 0 /\ fanout = Zero
        /\ ringProps.consistencyLevel = "weak"
             => /\ pc # "aborted"
                /\ gate.err = ""
                /\ Returned => /\ ringResult.called
                               /\ GateError = IF ringResult.err THEN "ring" ELSE ""

\* the insert failed under strong and the request was aborted
C7_Witness ==
    /\ pc = "aborted"
    /\ gate.insertFailed
    /\ ringProps.consistencyLevel = "strong"
    /\ GateError = "log"

\* C8: once the context of a recorded request is done, cancelled or not,
\* completion runs; it deletes the record through its marker exactly when
\* no error occurred and the request was no in-flight multipart upload, and
\* leaves the record in the log otherwise
C8_CompactionOnCompletion ==
    /\ pc = "ctxDone" => ENABLED AwaitCompletion
    /\ (pc = "completed" /\ gate.deleteMarker # NoMarker) =>
          /\ gate.deleteCalled <=> (gate.noErrors /\ ~gate.multiPart)
          /\ (\E x \in glog : MarkerOf(x) = gate.deleteMarker) <=> ~gate.deleteCalled
    /\ (pc = "completed" /\ gate.deleteMarker = NoMarker) => ~gate.deleteCalled

\* the client went away, the request had no error: the record was deleted
C8_Witness ==
    /\ pc = "completed"
    /\ gate.cancelled
    /\ gate.deleteMarker # NoMarker
    /\ gate.deleteCalled
    /\ glog = {}

\* C9: completion of a request inserts a PUT-shaped record carrying the
\* lifted version exactly when the request is a GET answered without error
\* by another shard than the picked one with a non-empty version header and
\* the region has readRepair set
C9_ReadRepairInsertion ==
    LET lifted == /\ req.method = "GET"
                  /\ ringResult.called /\ ~ringResult.err
                  /\ ringResult.name \notin {NoShard, origCluster}
                  /\ ringResult.resp.version # ""
    IN /\ pc = "completed" => (gate.readRepairInserted <=> (lifted /\ ringProps.readRepair))
       /\ \A x \in glog : x.objectVersion # "1" =>
             /\ lifted /\ ringProps.readRepair
             /\ x = [objectID |-> TrimLeft(req.path), method |-> "PUT",
                     objectVersion |-> ringResult.resp.version]
       /\ pc # "completed" => ~gate.readRepairInserted

\* a GET was answered by a fallback shard and its version was recorded
C9_Witness ==
    /\ pc = "completed"
    /\ req.method = "GET"
    /\ gate.readRepairInserted
    /\ ringResult.name # origCluster
    /\ \E x \in glog : x.method = "PUT" /\ x.objectVersion = "7"

\* the shard answer that the dispatcher handed back as its result
RingAnswered ==
    /\ Returned
    /\ ringResult.called
    /\ ringResult.name # NoShard

\* no fallback remains after shard name: the regression map has no entry
\* for it, or names the originally picked shard
NoFallbackAfter(name) ==
    LET regressionMap == createRegressionMap(shardsCfg)
    IN \/ name \notin DOMAIN regressionMap
       \/ regressionMap[name] = origCluster

ClientErrorReturned(lowest) ==
    /\ RingAnswered
    /\ ~ringResult.err
    /\ ringResult.resp.status >= lowest
    /\ ringResult.resp.status <= 499

\* C12 as stated: a response with a status in 400..499, received without
\* error, is the dispatcher's result only when no further fallback remains
\* (otherwise the request was retried on the next shard)
C12_RegressionOn4xx ==
    ClientErrorReturned(400) => NoFallbackAfter(ringResult.name)

\* C12 amended: a response with a status in 401..499, received without
\* error, is the dispatcher's result only when no further fallback remains;
\* as long as the regression map names a next shard other than the picked
\* one, the request is retried there
C12_RegressionOn401To499 ==
    ClientErrorReturned(401) => NoFallbackAfter(ringResult.name)

C12_Witness ==
    /\ ClientErrorReturned(401)
    /\ ringResult.name # origCluster
    /\ ringResult.resp.status = 499
    /\ sends[origCluster] = 1
    /\ closedBodies[origCluster] = 1

TotalClosed == SumOver(closedBodies, ShardNames)

\* C13: a shard call that ends in a timeout / transport error is followed by
\* a call to the next shard when the request does not carry
\* X-Akubra-No-Regression-On-Failure, so that an error is the dispatcher's
\* result only when no fallback remains; when the request carries the
\* header, an error ends the chain: every regression step followed a
\* response (whose body was closed), no shard is contacted after the one
\* that failed, and the result is the outcome of the last shard contacted
C13_TimeoutRegression ==
    /\ (RingAnswered /\ ringResult.err /\ ~req.noRegression)
          => NoFallbackAfter(ringResult.name)
    /\ (req.noRegression /\ pc = "send") => TotalSends = TotalClosed
    /\ (req.noRegression /\ RingAnswered)
          => /\ TotalSends = TotalClosed + 1
             /\ ringResult.name = cl
    /\ (req.noRegression /\ RingAnswered /\ ringResult.err
           /\ ringResult.name = origCluster)
          => TotalSends = 1

C13_Witness ==
    /\ req.noRegression
    /\ RingAnswered
    /\ ringResult.err
    /\ ringResult.name = origCluster
    /\ ~NoFallbackAfter(origCluster)
    /\ TotalSends = 1

\* the shards met by following the regression map from shard name for at
\* most 'steps' steps
RECURSIVE Walk(_, _, _)
Walk(regressionMap, name, steps) ==
    IF steps = 0 \/ name \notin DOMAIN regressionMap THEN {name}
    ELSE {name} \cup Walk(regressionMap, regressionMap[name], steps - 1)

\* C14: the regression map of the region has every shard of the region as a
\* key, every shard of the region is the value of exactly one key, and
\* following the map from any shard goes through all shards of the region
\* (one cycle)
C14_RegressionMapShape ==
    LET regressionMap == createRegressionMap(shardsCfg)
        shards == Names(shardsCfg)
    IN /\ DOMAIN regressionMap = shards
       /\ \A s \in shards :
            Cardinality({ k \in shards : regressionMap[k] = s }) = 1
       /\ \A s \in shards :
            Walk(regressionMap, s, Cardinality(shards)) = shards

\* the same, for the regions whose shard list names every shard once
RegressionMapShapeNamedOnce ==
    (\A i, j \in DOMAIN shardsCfg : i # j => shardsCfg[i] # shardsCfg[j])
        => C14_RegressionMapShape

(***************************************************************************)
(* Properties of the reconciler                                            *)
(***************************************************************************)
Entries == 1..MaxEntries

\* nothing is left to reconcile and nothing is under way
Quiescent ==
    /\ wlog = {}
    /\ inflight = {}
    /\ walEntriesChannel = <<>>
    /\ pendingTasks = <<>>
    /\ ~worker.busy

Holds(endpoint, version) == replicas[endpoint] = [present |-> TRUE, version |-> version]

TargetReplicas == SeqToSet(Backends(target))

\* C1: when the newest write of the object is a committed PUT of version V
\* and the reconciler has nothing left to do, every replica of the target
\* shard holds version V and no replica outside the target shard holds a copy
C1_EventualConsistency ==
    (Quiescent /\ quietV > 0) =>
        /\ \A e \in TargetReplicas : Holds(e, quietV)
        /\ \A e \in Endpoints \ TargetReplicas : ~replicas[e].present

\* the entry went through the filter without an error
Planned(i) == hist[i].filtered /\ hist[i].err = ""

\* the entry needs nothing more: the filter finished it with an error, or
\* both of its tasks are done
Finished(i) ==
    hist[i].filtered /\ (hist[i].err # "" \/ hist[i].done = {"migration", "cleanup"})

\* C2: for each entry handed to the filter the hook runs exactly once, and
\* not before every copy and delete of the entry's migration task and of its
\* cleanup task has been carried out
C2_HookExclusivity ==
    \A i \in Entries :
        /\ hist[i].hookCalls <= 1
        /\ ~hist[i].filtered => hist[i].hookCalls = 0
        /\ Finished(i) => hist[i].hookCalls = 1
        /\ hist[i].hookCalls = 1 =>
              /\ hist[i].todo = {}
              /\ \A k \in DOMAIN hist[i].tasks :
                    hist[i].tasks[k].destinations # <<>>
                        => hist[i].tasks[k].kind \in hist[i].done

\* an entry with a migration onto the target shard and a cleanup of the old
\* shard: both were carried out, then the hook ran
C2_Witness ==
    \E i \in Entries :
        /\ Planned(i)
        /\ Len(hist[i].tasks) = 2
        /\ hist[i].tasks[1].destinations # <<>>
        /\ hist[i].tasks[2].destinations # <<>>
        /\ hist[i].done = {"migration", "cleanup"}
        /\ hist[i].hookCalls = 1

\* a replica of the target shard reported a version above the record's
Superseded(i) ==
    \E e \in TargetReplicas :
        hist[i].survey[e].present /\ hist[i].survey[e].version > hist[i].record.objectVersion

\* C3: when a replica of the target shard reports a version strictly greater
\* than the record's, no task of the entry carries a source or a destination
\* and no replica is touched on behalf of the entry
C3_NoSupersededPropagation ==
    \A i \in Entries :
        (hist[i].filtered /\ Superseded(i)) =>
            /\ \A k \in DOMAIN hist[i].tasks :
                  /\ hist[i].tasks[k].sourceClient = NoClient
                  /\ hist[i].tasks[k].destinations = <<>>
            /\ hist[i].todo = {}

\* a PUT record of version 1 met its own version on one replica of the
\* target shard and version 2 on the other, and was dropped
C3_Witness ==
    \E i \in Entries :
        /\ Planned(i)
        /\ hist[i].record.method = "PUT"
        /\ hist[i].record.objectVersion = 1
        /\ target = "s1"
        /\ hist[i].survey["a"] = [present |-> TRUE, version |-> 1]
        /\ hist[i].survey["b"] = [present |-> TRUE, version |-> 2]
        /\ hist[i].hookCalls = 1

\* the object is held, at the record's version, by replicas of the other
\* shard only
OnOldShardOnly(i) ==
    /\ hist[i].record.method = "PUT"
    /\ \A e \in TargetReplicas : ~hist[i].survey[e].present
    /\ \E e \in Endpoints \ TargetReplicas : hist[i].survey[e].present
    /\ \A e \in Endpoints \ TargetReplicas :
          hist[i].survey[e].present
              => hist[i].survey[e].version = hist[i].record.objectVersion

\* C10: when the object is held only by replicas of the old shard, the PUT
\* record makes the filter emit a cleanup DELETE for every old-shard replica
\* holding it and a PUT migration onto the replicas of the target shard, and
\* the hook runs once, after both
C10_TopologyChange ==
    \A i \in Entries :
        (Planned(i) /\ OnOldShardOnly(i)) =>
            /\ Len(hist[i].tasks) = 2
            /\ hist[i].tasks[1].sourceClient # NoClient
            /\ SeqToSet(hist[i].tasks[1].destinations) = TargetReplicas
            /\ hist[i].tasks[2].record.method = "DELETE"
            /\ SeqToSet(hist[i].tasks[2].destinations) =
                  { e \in Endpoints \ TargetReplicas : hist[i].survey[e].present }
            /\ hist[i].hookCalls = 1 => hist[i].done = {"migration", "cleanup"}


\* C20: when the HEAD of a replica fails during the survey of an entry, the
\* filter finishes the entry at once: it queues no task for it, nothing is
\* copied or deleted for it, its hook is called once with the error, and
\* the record is still in the log and no longer in processing, so that the
\* next scan can hand it out again
C20_HeadFailure ==
    [][\A i \in 1..MaxEntries :
         (~hist[i].filtered /\ hist'[i].filtered /\ hist'[i].err = "head")
         => /\ pendingTasks' = <<>>
            /\ hist'[i].tasks = <<>>
            /\ hist'[i].todo = {}
            /\ hist'[i].done = {}
            /\ hist'[i].hookCalls = 1
            /\ hist'[i].hookErr = "head"
            /\ replicas' = replicas
            /\ wlog' = wlog
            /\ hist'[i].record \in wlog'
            /\ hist'[i].record \notin inflight']_vars

C20_Witness ==
    \E i, j \in 1..MaxEntries :
        /\ i < j
        /\ hist[i].filtered
        /\ hist[i].err = "head"
        /\ hist[i].tasks = <<>>
        /\ hist[j].fed
        /\ hist[j].record = hist[i].record

\* the object id has no "/", or nothing before or after its first "/"
MalformedID(id) ==
    \/ \A k \in DOMAIN id : id[k] # Slash
    \/ id[1] = Slash
    \/ \E k \in DOMAIN id : id[k] = Slash /\ (k = Len(id) \/ id[k + 1] = Slash)
                            /\ \A j \in 1..(k - 1) : id[j] # Slash

Unfinished(i) == hist[i].filtered /\ hist[i].hookCalls = 0

\* C24: while an entry of an object is unfinished (its tasks are not all
\* carried out or its hook has not run), no replica is surveyed and no task
\* is executed for a later entry of the same object
C24_PerObjectSerialization ==
    [][\A i, j \in Entries :
         (/\ i < j
          /\ Unfinished(i)
          /\ hist[j].fed
          /\ hist[j].record.objectID = hist[i].record.objectID)
         => /\ ~(~hist[j].filtered /\ hist'[j].filtered /\ hist'[j].asked # {})
            /\ ~(worker'.busy /\ worker'.task.entry = j)]_vars

\* what the filter saw on the target shard when it took up entry j
TargetEndpoints == SeqToSet(Backends(target))
TargetHolders(j) == { e \in TargetEndpoints : hist[j].survey[e].present }
Obsolete(j) ==
    \E e \in TargetHolders(j) : hist[j].survey[e].version > hist[j].record.objectVersion
AllLegacy(j) == \A e \in TargetHolders(j) : hist[j].survey[e].version = -1
\* the entry went through the filter without error and its target-shard
\* survey is neither obsolete nor all-legacy
PlanCase(j) ==
    /\ hist[j].filtered
    /\ hist[j].err = ""
    /\ ~Obsolete(j)
    /\ ~AllLegacy(j)
NoDuplicates(sq) == Len(sq) = Cardinality(SeqToSet(sq))

PutWithNoCopy(j) ==
    /\ hist[j].filtered
    /\ hist[j].err = ""
    /\ hist[j].record.method = "PUT"
    /\ TargetHolders(j) = {}

\* C26: for a PUT record with no copy on the target shard the entry is
\* dropped: no source and no destination is emitted and no replica is
\* written to for the entry
C26_PutWithNoCopy ==
    \A j \in Entries :
        PutWithNoCopy(j) =>
            /\ \A k \in DOMAIN hist[j].tasks :
                 /\ hist[j].tasks[k].sourceClient = NoClient
                 /\ hist[j].tasks[k].destinations = <<>>
            /\ hist[j].todo = {}
            /\ ~(worker.busy /\ worker.task.entry = j /\ worker.todo # <<>>)

C26_Witness ==
    \E j \in Entries :
        /\ PutWithNoCopy(j)
        /\ hist[j].hookCalls = 1
        /\ \E e \in Endpoints \ TargetEndpoints :
             hist[j].survey[e] = [present |-> TRUE, version |-> hist[j].record.objectVersion]

\* the entry went through the filter without error and every replica of the
\* target shard that held the object reported no version header
LegacyOnTarget(j) ==
    /\ hist[j].filtered
    /\ hist[j].err = ""
    /\ AllLegacy(j)

\* C27: when every target-shard replica holding the object reports version
\* -1, no migration is emitted for the entry, for PUT and DELETE alike, so
\* no copy without version header is overwritten or deleted
C27_LegacyObjectsKept ==
    \A j \in Entries :
        LegacyOnTarget(j) =>
            /\ \A k \in DOMAIN hist[j].tasks :
                 /\ hist[j].tasks[k].sourceClient = NoClient
                 /\ hist[j].tasks[k].destinations = <<>>
            /\ hist[j].todo = {}
            /\ (worker.busy /\ worker.task.entry = j) => worker.todo = <<>>

C27_Witness ==
    \E j \in Entries :
        /\ LegacyOnTarget(j)
        /\ TargetHolders(j) # {}
        /\ hist[j].record.method = "DELETE"
        /\ hist[j].hookCalls = 1

\* the survey of the target shard gave a plan: the filter did not fall back
\* to the empty ring state
YieldsPlan(j) ==
    /\ PlanCase(j)
    /\ hist[j].record.method = "PUT" => hist[j].tasks[1].sourceClient # NoClient

\* C28: when the entry yields a target-shard plan, the destinations of the
\* cleanup task are exactly the replicas of the other shards that hold the
\* object at a version not above the record's; a replica of another shard
\* that lacks the object or holds a newer version, and a replica of the
\* target shard, is never among them
C28_OldShardCleanupSet ==
    \A j \in Entries :
        (hist[j].filtered /\ hist[j].err = "") =>
            LET c == hist[j].tasks[2]
                v == hist[j].record.objectVersion
                sv == hist[j].survey
                old == Endpoints \ TargetEndpoints
            IN /\ c.kind = "cleanup"
               /\ NoDuplicates(c.destinations)
               /\ SeqToSet(c.destinations) \subseteq
                    { e \in old : sv[e].present /\ sv[e].version <= v }
               /\ YieldsPlan(j) =>
                    SeqToSet(c.destinations) =
                        { e \in old : sv[e].present /\ sv[e].version <= v }

C28_Witness ==
    \E j \in Entries :
        /\ YieldsPlan(j)
        /\ hist[j].tasks[2].destinations # <<>>
        /\ \E e \in Endpoints \ TargetEndpoints :
             hist[j].survey[e].version > hist[j].record.objectVersion

\* the filter emitted the two tasks of the entry
YieldsTasks(j) == hist[j].filtered /\ hist[j].err = ""

\* C29 as stated: of the two tasks of an entry exactly one carries the
\* RecordProcessedHook, and it is the task emitted last; the task emitted
\* first runs with the no-op hook
C29_HookOnLastTask ==
    \A j \in Entries :
        YieldsTasks(j) =>
            /\ Len(hist[j].tasks) = 2
            /\ hist[j].tasks[1].hook = "noop"
            /\ hist[j].tasks[2].hook = "real"

\* C29: of the two tasks of an entry exactly one carries the
\* RecordProcessedHook and the other the no-op hook; the hook is on the
\* cleanup task, emitted last, exactly when that task has a destination, and
\* otherwise on the migration task, emitted first
C29_HookPlacement ==
    \A j \in Entries :
        YieldsTasks(j) =>
            /\ Len(hist[j].tasks) = 2
            /\ hist[j].tasks[1].kind = "migration"
            /\ hist[j].tasks[2].kind = "cleanup"
            /\ {hist[j].tasks[1].hook, hist[j].tasks[2].hook} = {"real", "noop"}
            /\ hist[j].tasks[2].hook = "real" <=> hist[j].tasks[2].destinations # <<>>

C29_Witness ==
    \E j \in Entries :
        /\ YieldsTasks(j)
        /\ hist[j].tasks[1].hook = "real"
        /\ hist[j].tasks[1].destinations # <<>>
        /\ hist[j].done = {"migration", "cleanup"}
        /\ hist[j].hookCalls = 1

\* C36: for a PUT record, a cleanup task with a replica to delete from comes
\* only with a migration task whose source is a target-shard replica
\* surveyed at the record's version; no cleanup is emitted when the target
\* shard holds no copy at the record's version
C36_CleanupKeepsGoodCopy ==
    \A j \in Entries :
        (YieldsTasks(j) /\ hist[j].record.method = "PUT") =>
            LET m == hist[j].tasks[1]
                c == hist[j].tasks[2]
                good == [present |-> TRUE, version |-> hist[j].record.objectVersion]
            IN /\ c.destinations # <<>> =>
                    /\ m.sourceClient \in TargetEndpoints
                    /\ hist[j].survey[m.sourceClient] = good
                    /\ m.sourceClient \notin SeqToSet(c.destinations)
               /\ (\A e \in TargetEndpoints : hist[j].survey[e] # good) =>
                    c.destinations = <<>>

C36_Witness ==
    \E j \in Entries :
        /\ YieldsTasks(j)
        /\ hist[j].record.method = "PUT"
        /\ hist[j].done = {"migration", "cleanup"}
        /\ \E e \in SeqToSet(hist[j].tasks[2].destinations) :
             hist[j].survey[e].version = hist[j].record.objectVersion

\* C37: no task the filter emits to delete copies, the target-shard task of
\* a DELETE record or the cleanup task of any record, has as destination a
\* replica surveyed at a version above the record's
C37_DeletesNeverHitNewer ==
    \A j \in Entries :
        YieldsTasks(j) =>
            LET v == hist[j].record.objectVersion
                deletes == SeqToSet(hist[j].tasks[2].destinations)
                           \cup (IF hist[j].record.method = "DELETE"
                                 THEN SeqToSet(hist[j].tasks[1].destinations) ELSE {})
            IN /\ hist[j].tasks[2].record.method = "DELETE"
               /\ \A e \in deletes : hist[j].survey[e].version <= v

C37_Witness ==
    \E j \in Entries :
        /\ YieldsTasks(j)
        /\ hist[j].record.method = "DELETE"
        /\ hist[j].tasks[1].destinations # <<>>
        /\ hist[j].tasks[2].destinations # <<>>
        /\ \E e \in Endpoints : hist[j].survey[e].version > hist[j].record.objectVersion

\* what a call of determineStorages comes to: its error or, without error,
\* the source, the destinations and the old storages as sets
SurveyOutcome(res) ==
    IF res.err # "" THEN [err |-> res.err, src |-> NoClient, dst |-> {}, old |-> {}]
    ELSE [err |-> "",
          src |-> res.ringState.targetShardSrcCli,
          dst |-> SeqToSet(res.ringState.targetShardDstClis.items),
          old |-> SeqToSet(res.ringState.oldStoragesWithObject)]

\* C39: for a record and replica states, failing HEADs included, the
\* outcome of determineStorages is the same in whatever order the shards of
\* the ring are iterated
C39_SurveyOrderIndependence ==
    \A r \in wlog, failure \in Failures, o1, o2 \in Perms(WalShards) :
        SurveyOutcome(determineStorages(r, target, o1, replicas, failure))
          = SurveyOutcome(determineStorages(r, target, o2, replicas, failure))

\* when every HEAD is answered and every backend's credentials resolve, the
\* outcome of determineStorages does not depend on the order of the shards
SurveyOrderIndependenceWithoutFailure ==
    \A r \in wlog, o1, o2 \in Perms(WalShards) :
        SurveyOutcome(determineStorages(r, target, o1, replicas,
                                        [kind |-> "none", endpoint |-> ""]))
          = SurveyOutcome(determineStorages(r, target, o2, replicas,
                                            [kind |-> "none", endpoint |-> ""]))

(***************************************************************************)
(* Properties of the version supply                                        *)
(***************************************************************************)
LiveRecords == { r \in vrecords : r.live }

Delivered == backendResponseChannel.delivered

\* C15: when the round tripper has no backend out of maintenance (no
\* backend at all, or all of them in maintenance), Do calls RoundTrip of no
\* backend and delivers exactly one response, with a nil HTTP response and
\* the error "can't handle multi upload"; the channel is closed after that
\* response and not before
C15_ImpossibleMultipart ==
    (activeBackends(mpBackends) = {} /\ mpCount > 0)
    => /\ \A p \in MpPaths : contacted[p] = {}
       /\ Len(Delivered) <= 1
       /\ \A i \in DOMAIN Delivered :
            /\ Delivered[i].response.nil
            /\ Delivered[i].error = "can't handle multi upload"
            /\ Delivered[i].backend = NoNode
       /\ backendResponseChannel.closed <=> Len(Delivered) = 1
       /\ mpPc = "done" => backendResponseChannel.closed
       /\ mpPc # "panic"

C15_Witness ==
    /\ DOMAIN mpBackends = MpEndpoints
    /\ activeBackends(mpBackends) = {}
    /\ mpPc = "done"
    /\ Len(Delivered) = 1
    /\ backendResponseChannel.closed

\* C16: the requests of an upload on one object path (initiate, parts,
\* complete) all go to one backend of the shard, the ring's node for the
\* path, and no other backend receives a request on that path
C16_MultipartPinning ==
    /\ \A p \in MpPaths :
         /\ Cardinality(contacted[p]) <= 1
         /\ contacted[p] \subseteq ({backendsRing[p]} \cap activeBackends(mpBackends))
    /\ mpResult.backend # NoNode => mpResult.backend \in contacted[mpReq.path]

C16_Witness ==
    \E p \in MpPaths :
        /\ uploadProgress[p] = 3
        /\ Cardinality(activeBackends(mpBackends)) = 2
        /\ Cardinality(contacted[p]) = 1
        /\ mpReq.path = p
        /\ KindOf(mpReq.query) = "complete"
        /\ mpPc = "done"

\* the completion goroutine of Do has gone past its test of the response
CompletionChecked == goroutines.completion \in {"send", "close", "done"}

\* the backend answered 200 with a body that parses as
\* CompleteMultipartUploadResult
AnsweredComplete ==
    /\ ~mpResult.httpResponse.nil
    /\ mpResult.httpResponse.status = 200
    /\ mpResult.httpResponse.parses

\* the value the context flag must have once the test of the response is
\* done, given whether the request counts as a complete-upload request
FlagFor(isCompleteRequest) ==
    IF ~mpReq.flagInContext THEN "absent"
    ELSE IF isCompleteRequest /\ AnsweredComplete THEN "true" ELSE "false"

FlagSettled(isCompleteRequest) ==
    (mpWatchdog = NoWatchdogField /\ mpCount > 0)
    => /\ CompletionChecked => multiPartUpload = FlagFor(isCompleteRequest)
       /\ ~CompletionChecked => multiPartUpload # "true"
       /\ \A i \in DOMAIN Delivered :
            Delivered[i].flagAtDelivery = FlagFor(isCompleteRequest)

\* C17 as stated: the flag in the request context is true if and only if
\* the request is a complete-upload request (uploadId, no partNumber, method
\* POST, no uploads) and the backend answered 200 with a body that parses;
\* it has its final value when a response is delivered on the channel
C17_CompletionDetectionPost ==
    FlagSettled(/\ "uploadId" \in mpReq.query
                /\ "partNumber" \notin mpReq.query
                /\ "uploads" \notin mpReq.query
                /\ mpReq.method = "POST")

\* C17 amended: the same, whatever the method of the request
C17_CompletionDetection ==
    FlagSettled(/\ "uploadId" \in mpReq.query
                /\ "partNumber" \notin mpReq.query
                /\ "uploads" \notin mpReq.query)

C17_Witness ==
    /\ mpWatchdog = NoWatchdogField
    /\ mpPc = "done"
    /\ mpReq.method = "POST"
    /\ mpReq.query = {"uploadId"}
    /\ multiPartUpload = "true"
    /\ Len(Delivered) = 1
    /\ Delivered[1].flagAtDelivery = "true"
    /\ backendResponseChannel.closed

\* the request in flight is a complete-upload request that the backend
\* answered with a parsable 200
CompleteUploadAnswered ==
    /\ "uploadId" \in mpReq.query
    /\ "partNumber" \notin mpReq.query
    /\ "uploads" \notin mpReq.query
    /\ AnsweredComplete

InMaintenance == { e \in DOMAIN mpBackends : mpBackends[e] }

\* C22: a backend in maintenance is never the backend of a multipart
\* request: the ring holds it for no object path, pickBackend returns it for
\* no object path, and no request is forwarded to it.  The reconciler's
\* survey of the shard sends its HEAD to every backend of the shard, those in
\* maintenance included, and may take one of them as the source of a copy
C22_MaintenanceInvariant ==
    /\ \A p \in MpPaths :
         /\ backendsRing[p] \notin InMaintenance
         /\ pickBackend(p) \notin InMaintenance
         /\ contacted[p] \cap InMaintenance = {}
    /\ backendsRoundTrippers \cap InMaintenance = {}
    /\ mpResult.backend \notin InMaintenance
    /\ \A k \in DOMAIN backendResponseChannel.delivered :
         backendResponseChannel.delivered[k].backend \notin InMaintenance
    /\ mpSurvey.done =>
         /\ mpSurvey.asked = DOMAIN mpBackends
         /\ mpSurvey.srcCli \in DOMAIN mpBackends \cup {NoClient}

\* in a shard with one backend in maintenance and one active, uploads were
\* forwarded to the active one, and the survey then took the backend in
\* maintenance as the source of the copy
C22_Witness ==
    /\ Cardinality(InMaintenance) = 1
    /\ Cardinality(DOMAIN mpBackends) = 2
    /\ \E p \in MpPaths : contacted[p] # {}
    /\ mpSurvey.done
    /\ mpSurvey.srcCli \in InMaintenance

(***************************************************************************)
(* Properties of the version fetcher                                       *)
(***************************************************************************)
\* the HEAD was answered 200 and the version header is absent or is not an
\* integer
LegacyAnswer ==
    /\ fetchInput.answer.err = ""
    /\ fetchInput.answer.status = 200
    /\ \/ fetchInput.answer.rawHeader = <<>>
       \/ "x" \in SeqToSet(fetchInput.answer.rawHeader)
       \/ fetchInput.answer.rawHeader = <<"-">>
       \/ fetchInput.answer.rawHeader = <<"-", "-">>
       \/ (Len(fetchInput.answer.rawHeader) = 2
             /\ fetchInput.answer.rawHeader[2] = "-")

\* C19: on a 200 whose version header is absent or not an integer, Fetch
\* succeeds with version -1 and objectNotFound false; Fetch fails only on a
\* status other than 200 (404 being reported as not found) and on transport
\* errors
C19_LegacyObjects ==
    fetchResult.called
    => /\ LegacyAnswer
          => /\ ~fetchResult.err
             /\ fetchResult.state.version = -1
             /\ ~fetchResult.state.objectNotFound
       /\ fetchResult.err
          => \/ fetchInput.answer.err \notin {"", "404 Not Found"}
             \/ fetchInput.answer.err = "" /\ fetchInput.answer.status # 200

\* what Fetch does: a 200 without an integer version header is an error
FetchAsCoded ==
    fetchResult.called
    => /\ LegacyAnswer => fetchResult.err
       /\ (fetchInput.answer.err = "" /\ fetchInput.answer.status = 200
             /\ ~LegacyAnswer)
          => /\ ~fetchResult.err
             /\ ~fetchResult.state.objectNotFound
       /\ fetchInput.answer.err = "404 Not Found"
          => /\ ~fetchResult.err
             /\ fetchResult.state.objectNotFound
             /\ fetchResult.state.version = -1

(***************************************************************************)
(* Properties of the region ring built by RegionRing                       *)
(***************************************************************************)
\* the request carries a version 2 or version 4 signature that does not
\* verify
SignatureMismatch ==
    /\ region.pc \in {"send", "returned"}
    /\ region.req.authorization.scheme \in {"AWS", "AWS4-HMAC-SHA256"}
    /\ ~region.req.authorization.verifies

C30_ReadRepairLift ==
    [][(rrSlot' # rrSlot /\ rrSlot' \notin {"absent", ""})
        => /\ req.method = "GET"
           /\ ringResult'.called
           /\ ~ringResult'.err
           /\ ringResult'.resp.status < 400
           /\ ringResult'.name # origCluster]_vars

(***************************************************************************)
(* Properties of the responses a regression chain discards                 *)
(***************************************************************************)
\* a step of regressionCall that discards the answer of cl and goes on to
\* its fallback, and one that returns the answer of cl
Regresses == sends' # sends /\ pc' = "send"
Returns == sends' # sends /\ pc' = "returned"

\* C31: a response discarded in favour of a regression call is closed once,
\* at the shard that gave it, before the next shard is contacted (a
\* transport error, which only regresses without the suppressing header,
\* leaves nothing to close), and the response returned is not closed
C31_DiscardedResponsesClosed ==
    [][/\ Regresses =>
            \/ closedBodies' = [closedBodies EXCEPT ![cl] = @ + 1]
            \/ closedBodies' = closedBodies /\ ~req.noRegression
       /\ Returns => closedBodies' = closedBodies
       /\ \A s \in ShardNames : closedBodies'[s] <= sends'[s]
       /\ (Returns /\ ~ringResult'.err) =>
            closedBodies'[ringResult'.name] < sends'[ringResult'.name]]_vars

C31_Witness ==
    /\ pc = "returned"
    /\ req.noRegression
    /\ ~ringResult.err
    /\ ringResult.name # origCluster
    /\ TotalClosed = TotalSends - 1
    /\ TotalClosed >= 2

(***************************************************************************)
(* Properties of the ConsistencyRecord                                     *)
(***************************************************************************)
\* every one of the first n recorded results was a success
AllSuccessful(n) == \A k \in 1..n : consistencyRecord.recorded[k]

\* C32: whatever the interleaving of the AddBackendResult calls,
\* IsReflectedOnAllStorages answers true exactly when every result recorded
\* before it was a success, and after a recorded failure it answers false
\* ever after
C32_NoErrorsAggregation ==
    /\ \A i \in DOMAIN consistencyRecord.answers :
         consistencyRecord.answers[i].value = AllSuccessful(consistencyRecord.answers[i].after)
    /\ \A i, j \in DOMAIN consistencyRecord.answers :
         (i < j /\ ~consistencyRecord.answers[i].value) => ~consistencyRecord.answers[j].value
    /\ consistencyRecord.mx = NoHolder =>
         consistencyRecord.isReflectedOnBackends
            = AllSuccessful(Len(consistencyRecord.recorded))

C32_Witness ==
    /\ Len(consistencyRecord.answers) = 2
    /\ consistencyRecord.answers[1].value
    /\ consistencyRecord.answers[1].after >= 1
    /\ ~consistencyRecord.answers[2].value
    /\ Len(consistencyRecord.recorded) = MaxResults
    /\ consistencyRecord.recorded[MaxResults]

(***************************************************************************)
(* Properties of the filter stage between its channels                     *)
(***************************************************************************)
\* C33: the filter never has more tasks waiting in its tasks queue than the
\* queue holds, so a send blocks until the consumer makes room; and once the
\* entries queue is closed and the filter goroutine has exited, it has
\* handled every entry it received and its tasks queue is closed, so that
\* the consumer exits too
C33_ShutdownAndBackpressure ==
    /\ Len(pipe.tasksChannel) <= pipe.tasksCap
    /\ pipe.filterPc = "exited" =>
         /\ pipe.entriesClosed
         /\ Len(pipe.received) = pipe.fed
         /\ pipe.toSend = <<>>
         /\ pipe.tasksClosed

(***************************************************************************)
(* Properties of the response channel of MultiPartRoundTripper.Do          *)
(***************************************************************************)
\* C34: whatever the backend's round trip returned and however the
\* goroutines of Do are scheduled, none of them sends on the response
\* channel after it was closed, and none is left with a send to make once
\* the consumer has seen the channel closed
C34_NoSendAfterClose ==
    /\ mpPc # "panic"
    /\ backendResponseChannel.closed =>
         /\ goroutines.errorSender # "send"
         /\ goroutines.completion \notin {"check", "send"}

\* Do of internal/akubra/storages has chosen a backend for the request
ChosenBackend ==
    /\ mpPc \notin {"off", "idle"}
    /\ mpWatchdog = NoWatchdogField
    /\ mpResult.backend # NoNode

\* C35: for a request Do of internal/akubra/storages sent to a backend, the
\* consumer receives one BackendResponse, that of the chosen backend, whether
\* the round trip succeeded or failed, and then sees the channel closed
C35_OneResponsePerRequest ==
    ChosenBackend =>
        /\ Len(backendResponseChannel.delivered) <= 1
        /\ \A i \in DOMAIN backendResponseChannel.delivered :
             backendResponseChannel.delivered[i].backend = mpResult.backend
        /\ backendResponseChannel.closed => Len(backendResponseChannel.delivered) = 1
        /\ mpPc \in {"running", "done"}

(***************************************************************************)
(* Properties of the bucket and key the survey asks the replicas for       *)
(***************************************************************************)
\* the part of an object id before its first "/" and the part after it
RECURSIVE BeforeFirstSlash(_)
BeforeFirstSlash(s) ==
    IF s = <<>> \/ Head(s) = Slash THEN <<>>
    ELSE <<Head(s)>> \o BeforeFirstSlash(Tail(s))

RECURSIVE AfterFirstSlash(_)
AfterFirstSlash(s) ==
    IF s = <<>> THEN <<>>
    ELSE IF Head(s) = Slash THEN Tail(s)
    ELSE AfterFirstSlash(Tail(s))

\* C38: for a well-formed object id the survey asks the replica for the
\* bucket that is the part of the id before its first "/" and for the key
\* that is the whole rest of the id, also when the key holds "/" characters
C38_SurveyUsesRecordKey ==
    fetchResult.called =>
        /\ fetchResult.bucketName = BeforeFirstSlash(fetchInput.objectID)
        /\ fetchResult.key = AfterFirstSlash(fetchInput.objectID)

\* what the survey does: the key it asks for ends at the second "/"
SurveyKeyAsCoded ==
    fetchResult.called =>
        /\ fetchResult.bucketName = BeforeFirstSlash(fetchInput.objectID)
        /\ fetchResult.key = BeforeFirstSlash(AfterFirstSlash(fetchInput.objectID))

(***************************************************************************)
(* Properties of the order of the filter's tasks                           *)
(***************************************************************************)
RECURSIVE TasksInOrder(_, _)
\* the tasks owed to the entries ids, in their order: nothing for an entry
\* whose hook was called with an error, else its target-shard task and then
\* its cleanup task
TasksInOrder(ids, hooks) ==
    IF ids = <<>> THEN <<>>
    ELSE (IF hooks[Head(ids)] > 0 THEN <<>>
          ELSE << [entry |-> Head(ids), kind |-> "migration"],
                  [entry |-> Head(ids), kind |-> "cleanup"] >>)
         \o TasksInOrder(Tail(ids), hooks)

\* C40: the filter handles the entries in the order they were put into the
\* entries channel; an entry's hook is called with an error at most once and
\* then the entry has no task; every other entry has its target-shard task
\* and then its cleanup task on the tasks channel, both sent before the
\* filter receives again, so the tasks sent and still to send are exactly
\* the entries' pairs in the entries' order
C40_FilterOrdering ==
    /\ pipe.received = [i \in 1..Len(pipe.received) |-> i]
    /\ \A i \in 1..MaxEntries :
          /\ pipe.errHooks[i] <= 1
          /\ pipe.errHooks[i] = 1 => i <= Len(pipe.received)
    /\ pipe.sent \o pipe.toSend = TasksInOrder(pipe.received, pipe.errHooks)
    /\ pipe.filterPc # "send" => pipe.toSend = <<>>
    /\ pipe.filterPc = "send" => Len(pipe.toSend) \in 1..2

C40_Witness ==
    /\ pipe.received = <<1, 2>>
    /\ pipe.errHooks[1] = 1
    /\ pipe.errHooks[2] = 0
    /\ pipe.filterPc = "receive"
    /\ Len(pipe.sent) = 2

====
